---- MODULE Spec2Model ----
(***************************************************************************)
(* Block Blast: the game engine (grid, scoring, shape catalog) and the     *)
(* XState game machine of src/machines/gameMachine.ts.                     *)
(*                                                                         *)
(* The machine is modelled transition by transition.  External events are  *)
(* delivered only while the machine rests (XState processes one event to   *)
(* completion, eventless "always" transitions included, before the next    *)
(* one); the transient states placing and checkingGameOver leave through   *)
(* their "always" transitions only.                                        *)
(***************************************************************************)
EXTENDS Integers, Sequences, FiniteSets, TLC

\* state and the seven context fields of GameMachineContext; blockIdCounter is
\* the module-level counter of utils/blocks.ts; lastEvent is the most
\* recent event the machine took a transition on (an event the current state
\* does not list changes nothing and is not recorded).
VARIABLES state, grid, inventory, score, highScore, combo, currentDrag,
          linesToClear, blockIdCounter, lastEvent

\* History of the run, read by the properties only: pre is what the machine
\* held when lastEvent arrived, streak counts the accepted placements in a row
\* that completed a line since the game began.
VARIABLES pre, streak

\* A call of one of the exported grid functions outside the machine: call holds
\* the arguments as they are in memory (Null while nothing is called), result
\* the returned value in a sequence (empty until the call has returned).
VARIABLES call, result

ctx == <<grid, inventory, score, highScore, combo, currentDrag, linesToClear>>
vars == <<state, grid, inventory, score, highScore, combo, currentDrag,
          linesToClear, blockIdCounter, lastEvent, pre, streak, call, result>>

\* JavaScript null (and undefined, which the code only tests for falsiness):
\* Null where an object is expected, NullCell for a GridCell.
Null == << >>
NullCell == "null"

(***************************************************************************)
(* Bounds of the model.                                                    *)
(***************************************************************************)
\* Caps on blockIdCounter: no more blocks than this are generated in a run of
\* line-clear play (two inventories) and of end-game play (three).
MaxBlockIds == 6
MaxBlockIdsOver == 9
\* DRAG_START is delivered with blockIndex in 0..MaxDragIndex (3 is no slot).
\* First-move play: the initial inventory and that of one restart.
MaxBlockIdsFresh == 6
MaxDragIndex == 3
MaxComboCount == 30
\* Late play: the blocks placed and the score reached when the run begins, and
\* the cap on blockIdCounter (the inventory in hand, one refill, one restart).
LatePlaced == 72
LateScore == 372
MaxBlockIdsLate == 81
\* Denominator of the values Math.random() is drawn from (u = n/RandDenom).
RandDenom == 1000

(***************************************************************************)
(* utils/grid.ts, utils/colors.ts, utils/blocks.ts, utils/scoring.ts       *)
(***************************************************************************)
GRID_SIZE == 8

Indices == 0 .. (GRID_SIZE - 1)

createEmptyGrid == [row \in Indices |-> [col \in Indices |-> NullCell]]

isWithinBounds(row, col) ==
    row >= 0 /\ row < GRID_SIZE /\ col >= 0 /\ col < GRID_SIZE

BLOCK_SHAPES ==
    [ single   |-> << <<TRUE>> >>,
      line2H   |-> << <<TRUE, TRUE>> >>,
      line3H   |-> << <<TRUE, TRUE, TRUE>> >>,
      line4H   |-> << <<TRUE, TRUE, TRUE, TRUE>> >>,
      line5H   |-> << <<TRUE, TRUE, TRUE, TRUE, TRUE>> >>,
      line2V   |-> << <<TRUE>>, <<TRUE>> >>,
      line3V   |-> << <<TRUE>>, <<TRUE>>, <<TRUE>> >>,
      line4V   |-> << <<TRUE>>, <<TRUE>>, <<TRUE>>, <<TRUE>> >>,
      line5V   |-> << <<TRUE>>, <<TRUE>>, <<TRUE>>, <<TRUE>>, <<TRUE>> >>,
      square2  |-> << <<TRUE, TRUE>>, <<TRUE, TRUE>> >>,
      square3  |-> << <<TRUE, TRUE, TRUE>>, <<TRUE, TRUE, TRUE>>,
                      <<TRUE, TRUE, TRUE>> >>,
      lShape1  |-> << <<TRUE, FALSE>>, <<TRUE, FALSE>>, <<TRUE, TRUE>> >>,
      lShape2  |-> << <<TRUE, TRUE, TRUE>>, <<TRUE, FALSE, FALSE>> >>,
      lShape3  |-> << <<TRUE, TRUE>>, <<FALSE, TRUE>>, <<FALSE, TRUE>> >>,
      lShape4  |-> << <<FALSE, FALSE, TRUE>>, <<TRUE, TRUE, TRUE>> >>,
      lShapeR1 |-> << <<FALSE, TRUE>>, <<FALSE, TRUE>>, <<TRUE, TRUE>> >>,
      lShapeR2 |-> << <<TRUE, FALSE, FALSE>>, <<TRUE, TRUE, TRUE>> >>,
      lShapeR3 |-> << <<TRUE, TRUE>>, <<TRUE, FALSE>>, <<TRUE, FALSE>> >>,
      lShapeR4 |-> << <<TRUE, TRUE, TRUE>>, <<FALSE, FALSE, TRUE>> >>,
      tShape1  |-> << <<TRUE, TRUE, TRUE>>, <<FALSE, TRUE, FALSE>> >>,
      tShape2  |-> << <<FALSE, TRUE>>, <<TRUE, TRUE>>, <<FALSE, TRUE>> >>,
      tShape3  |-> << <<FALSE, TRUE, FALSE>>, <<TRUE, TRUE, TRUE>> >>,
      tShape4  |-> << <<TRUE, FALSE>>, <<TRUE, TRUE>>, <<TRUE, FALSE>> >>,
      zShape1  |-> << <<TRUE, TRUE, FALSE>>, <<FALSE, TRUE, TRUE>> >>,
      zShape2  |-> << <<FALSE, TRUE>>, <<TRUE, TRUE>>, <<TRUE, FALSE>> >>,
      sShape1  |-> << <<FALSE, TRUE, TRUE>>, <<TRUE, TRUE, FALSE>> >>,
      sShape2  |-> << <<TRUE, FALSE>>, <<TRUE, TRUE>>, <<FALSE, TRUE>> >>,
      smallL1  |-> << <<TRUE, FALSE>>, <<TRUE, TRUE>> >>,
      smallL2  |-> << <<TRUE, TRUE>>, <<TRUE, FALSE>> >>,
      smallL3  |-> << <<TRUE, TRUE>>, <<FALSE, TRUE>> >>,
      smallL4  |-> << <<FALSE, TRUE>>, <<TRUE, TRUE>> >> ]

SIMPLE_SHAPES ==
    << "single", "line2H", "line2V", "square2",
       "smallL1", "smallL2", "smallL3", "smallL4" >>

MEDIUM_SHAPES ==
    << "line3H", "line3V", "lShape1", "lShape2", "lShape3", "lShape4",
       "lShapeR1", "lShapeR2", "lShapeR3", "lShapeR4",
       "tShape1", "tShape2", "tShape3", "tShape4" >>

COMPLEX_SHAPES ==
    << "line4H", "line4V", "line5H", "line5V", "square3",
       "zShape1", "zShape2", "sShape1", "sShape2" >>

\* ---- IEEE 754 doubles ----
\* The weights, their sum, Math.random() * totalWeight and the running value
\* of the selection loop are doubles in the code.  A non-negative double is
\* kept here exactly, as a natural number of units of 2^-DoubleUnit (all the
\* doubles of the selection are multiples of that unit), written in Limbs
\* digits of base LimbBase, least significant first.  Every operation of the
\* code is the exact operation followed by roundDouble, the rounding to 53
\* significant bits, ties to even.  Where an operator accumulates over the
\* digits it carries its state in a record, so that every step works on
\* values.
LimbBits == 15
LimbBase == 32768
Limbs == 9
DoubleBits == 53
DoubleUnit == 62

\* The natural n < LimbBase.
bigOfInt(n) == << n >> \o [k \in 1 .. Limbs - 1 |-> 0]

\* a + b from digit k on, bigAdd(a, b, 1, 0) being the sum.
RECURSIVE bigAdd(_, _, _, _)
bigAdd(a, b, k, carry) ==
    IF k > Limbs THEN << >>
    ELSE LET s == a[k] + b[k] + carry
         IN  << s % LimbBase >> \o bigAdd(a, b, k + 1, s \div LimbBase)

\* a - b for a >= b from digit k on, bigSub(a, b, 1, 0) being the difference.
RECURSIVE bigSub(_, _, _, _)
bigSub(a, b, k, borrow) ==
    IF k > Limbs THEN << >>
    ELSE LET d == a[k] - b[k] - borrow
         IN  IF d < 0
             THEN << d + LimbBase >> \o bigSub(a, b, k + 1, 1)
             ELSE << d >> \o bigSub(a, b, k + 1, 0)

\* 1, 0 or -1 as a is above, equal to or below b on the digits up to k.
RECURSIVE bigCompare(_, _, _)
bigCompare(a, b, k) ==
    IF k = 0 THEN 0
    ELSE IF a[k] > b[k] THEN 1
    ELSE IF a[k] < b[k] THEN -1
    ELSE bigCompare(a, b, k - 1)

\* a * m for a digit m < LimbBase from digit k on, bigTimesDigit(a, m, 1, 0)
\* being the product.
RECURSIVE bigTimesDigit(_, _, _, _)
bigTimesDigit(a, m, k, carry) ==
    IF k > Limbs THEN << >>
    ELSE LET p == a[k] * m + carry
         IN  << p % LimbBase >> \o bigTimesDigit(a, m, k + 1, p \div LimbBase)

\* Long division of a by d <= LimbBase, from the most significant digit down:
\* st holds the index of the next digit, the remainder so far and the digits
\* of the quotient found so far, and the result is st at index 0.
RECURSIVE bigDivMod(_, _, _)
bigDivMod(a, d, st) ==
    IF st.index = 0 THEN st
    ELSE LET cur == st.rem * LimbBase + a[st.index]
         IN  bigDivMod(a, d, [index |-> st.index - 1,
                              rem |-> cur % d,
                              digits |-> << cur \div d >> \o st.digits])

\* a * 2^bits and floor(a / 2^bits): whole digits are moved, the bits left
\* over are a product or a quotient by a power of two below LimbBase.
bigShiftLeft(a, bits) ==
    LET n == bits \div LimbBits
    IN  bigTimesDigit([k \in 1 .. n |-> 0] \o SubSeq(a, 1, Limbs - n),
                      2 ^ (bits % LimbBits), 1, 0)
bigShiftRight(a, bits) ==
    LET n == bits \div LimbBits
    IN  bigDivMod(SubSeq(a, n + 1, Limbs) \o [k \in 1 .. n |-> 0],
                  2 ^ (bits % LimbBits),
                  [index |-> Limbs, rem |-> 0, digits |-> << >>]).digits

\* a * b, one digit of a at a time: st holds the index of the next digit of
\* a and the sum of the partial products so far.
RECURSIVE bigTimes(_, _, _)
bigTimes(a, b, st) ==
    IF st.index > Limbs THEN st.sum
    ELSE LET partial == bigTimesDigit(b, a[st.index], 1, 0)
         IN  bigTimes(a, b,
                 [index |-> st.index + 1,
                  sum |-> bigAdd(st.sum,
                                 bigShiftLeft(partial,
                                              LimbBits * (st.index - 1)),
                                 1, 0)])

\* The number of bits of a on the digits up to k (0 for zero).
RECURSIVE bigBitLength(_, _)
bigBitLength(a, k) ==
    IF k = 0 THEN 0
    ELSE IF a[k] = 0 THEN bigBitLength(a, k - 1)
    ELSE LimbBits * (k - 1)
             + CHOOSE n \in 1 .. LimbBits : 2 ^ (n - 1) <= a[k] /\ a[k] < 2 ^ n

\* The double nearest to a: a kept to 53 significant bits, the dropped part
\* rounded to nearest, a tie going to the even neighbour.  half is a cut one
\* bit below the last bit kept: its quotient by 2 is the part kept and its
\* remainder the first bit dropped, which says whether the dropped part
\* reaches one half; exact says that no bit below that one is set.
roundDouble(a) ==
    LET drop == bigBitLength(a, Limbs) - DoubleBits
    IN  IF drop <= 0 THEN a
        ELSE LET half == bigDivMod(bigShiftRight(a, drop - 1), 2,
                             [index |-> Limbs, rem |-> 0, digits |-> << >>])
                 kept == half.digits
                 firstDropped == bigShiftLeft(bigOfInt(half.rem), drop - 1)
                 exact == bigShiftLeft(kept, drop)
                              = bigSub(a, firstDropped, 1, 0)
                 up == half.rem = 1 /\ (~exact \/ kept[1] % 2 = 1)
             IN  bigShiftLeft(IF up THEN bigAdd(kept, bigOfInt(1), 1, 0)
                                    ELSE kept,
                              drop)

\* a * b in doubles: the exact product counts units of 2^-(2 * DoubleUnit).
doubleTimes(a, b) ==
    IF b = bigOfInt(0) \/ a = bigOfInt(0) THEN bigOfInt(0)
    ELSE bigShiftRight(roundDouble(bigTimes(a, b,
                           [index |-> 1, sum |-> bigOfInt(0)])),
                       DoubleUnit)

\* The double n / d of two small naturals (a decimal literal of the code, or
\* a value of Math.random()): the quotient to one binary place below the
\* unit, one more bit telling whether anything was left, rounded.
doubleOfRatio(n, d) ==
    LET division == bigDivMod(bigShiftLeft(bigOfInt(n), DoubleUnit + 1), d,
                        [index |-> Limbs, rem |-> 0, digits |-> << >>])
        sticky == IF division.rem > 0 THEN 1 ELSE 0
        withSticky == bigAdd(bigShiftLeft(division.digits, 1),
                             bigOfInt(sticky), 1, 0)
    IN  bigShiftRight(roundDouble(withSticky), 2)

\* Selection weights in tenths: single 0.3, square3 0.1, every other shape 1.0.
SHAPE_WEIGHTS(s) ==
    IF s = "single" THEN 3 ELSE IF s = "square3" THEN 1 ELSE 10

\* The weights as the code holds them: the doubles of 0.3, 0.1 and 1.0, by
\* their number of tenths.
DoubleWeights == [t \in {1, 3, 10} |-> doubleOfRatio(t, 10)]

\* weights.reduce((a, b) => a + b, 0): a double sum taken from left to right,
\* rounded after every addition.  acc is the state of the reduction, the index
\* of the next weight and the sum so far (a record, so that the sum is a value
\* at every step and not an expression that grows with the array).
RECURSIVE SumWeights(_, _)
SumWeights(shapes, acc) ==
    IF acc.index > Len(shapes) THEN acc.sum
    ELSE LET weight == DoubleWeights[SHAPE_WEIGHTS(shapes[acc.index])]
         IN  SumWeights(shapes,
                 [index |-> acc.index + 1,
                  sum |-> roundDouble(bigAdd(acc.sum, weight, 1, 0))])

\* The selection loop: each weight is subtracted from random in turn and the
\* first shape that brings it to <= 0 is returned; the last shape is the
\* fallback.  random is the non-negative double before the subtraction, so
\* "random - weight <= 0" is "random <= weight" (a double difference is zero
\* only for equal operands and has the sign of the exact difference).
RECURSIVE weightedRandomLoop(_, _, _)
weightedRandomLoop(shapes, random, i) ==
    IF i > Len(shapes) THEN shapes[Len(shapes)]
    ELSE IF bigCompare(random, DoubleWeights[SHAPE_WEIGHTS(shapes[i])],
                       Limbs) <= 0
    THEN shapes[i]
    ELSE weightedRandomLoop(shapes,
             roundDouble(bigSub(random,
                                DoubleWeights[SHAPE_WEIGHTS(shapes[i])],
                                1, 0)),
             i + 1)

\* The same sum and the same loop in real numbers, kept in the integers:
\* weights in tenths, random multiplied by 10 * RandDenom.  The doubles of the
\* code differ from these real numbers by less than 2^-40 (fewer than 100
\* roundings of values below 64, each off by at most 2^-47), and the real value
\* left after a subtraction is a multiple of 1 / (10 * RandDenom): when it is
\* not zero the double has its sign, and the loop of the code takes the same
\* branch, so exactLoop answers << shape >>.  When it is zero the rounding
\* decides and exactLoop answers << >>.
RECURSIVE exactSum(_, _)
exactSum(shapes, i) ==
    IF i > Len(shapes) THEN 0
    ELSE SHAPE_WEIGHTS(shapes[i]) + exactSum(shapes, i + 1)

RECURSIVE exactLoop(_, _, _)
exactLoop(shapes, random, i) ==
    IF i > Len(shapes) THEN << >>
    ELSE LET rest == random - RandDenom * SHAPE_WEIGHTS(shapes[i])
         IN  IF rest < 0 THEN << shapes[i] >>
             ELSE IF rest = 0 THEN << >>
             ELSE exactLoop(shapes, rest, i + 1)

\* u is the numerator of the Math.random() value, the double u / RandDenom in
\* [0, 1); Math.random() * totalWeight is the rounded double product.  The
\* doubles are worked out only where the real numbers leave the branch open.
weightedRandomShape(shapes, u) ==
    LET decided == exactLoop(shapes, u * exactSum(shapes, 1), 1)
        totalWeight == SumWeights(shapes, [index |-> 1, sum |-> bigOfInt(0)])
        random == doubleTimes(doubleOfRatio(u, RandDenom), totalWeight)
    IN  IF decided # << >> THEN decided[1]
        ELSE weightedRandomLoop(shapes, random, 1)

BlockColors == << "red", "blue", "green", "yellow", "purple", "orange" >>

\* colors[Math.floor(Math.random() * colors.length)], u as above.
getRandomColor(u) == BlockColors[((u * Len(BlockColors)) \div RandDenom) + 1]

getShapeDimensions(shape) ==
    [rows |-> Len(shape), cols |-> IF Len(shape) > 0 THEN Len(shape[1]) ELSE 0]

\* Occupied cells of a shape, row-major, as 0-based offsets.
getShapeCells(shape) ==
    LET nr == Len(shape)
        nc == IF nr > 0 THEN Len(shape[1]) ELSE 0
        all == [k \in 1 .. (nr * nc) |->
                   [row |-> (k - 1) \div nc, col |-> (k - 1) % nc]]
        occupied(p) == shape[p.row + 1][p.col + 1]
    IN  SelectSeq(all, occupied)

\* Faulty variant: below 500 the pool holds every medium shape.
availableShapes_WholeMedium(s) ==
    IF s < 500 THEN SIMPLE_SHAPES \o SIMPLE_SHAPES \o MEDIUM_SHAPES
    ELSE IF s < 1500 THEN SIMPLE_SHAPES \o MEDIUM_SHAPES
    ELSE IF s < 3000 THEN MEDIUM_SHAPES \o COMPLEX_SHAPES
    ELSE SIMPLE_SHAPES \o MEDIUM_SHAPES \o COMPLEX_SHAPES \o COMPLEX_SHAPES

\* The pool of shape names generateRandomBlock draws from at a given score.
availableShapes(s) ==
    IF s < 500 THEN SIMPLE_SHAPES \o SIMPLE_SHAPES \o SubSeq(MEDIUM_SHAPES, 1, 4)
    ELSE IF s < 1500 THEN SIMPLE_SHAPES \o MEDIUM_SHAPES
    ELSE IF s < 3000 THEN MEDIUM_SHAPES \o COMPLEX_SHAPES
    ELSE SIMPLE_SHAPES \o MEDIUM_SHAPES \o COMPLEX_SHAPES \o COMPLEX_SHAPES

\* The id string is block_<Date.now()>_<blockIdCounter>; the counter alone
\* identifies it and stands for the id.
\* Faulty variant: the counter is left out of the id, so that blocks generated
\* within the same millisecond get the same id.
generateBlockId_TimeOnly(n) == 0

generateBlockId(n) == n

\* draw = <<u for the shape, u for the color>>, n = blockIdCounter at the call.
generateRandomBlock(s, draw, n) ==
    [ id    |-> generateBlockId(n),
      shape |-> BLOCK_SHAPES[weightedRandomShape(availableShapes(s), draw[1])],
      color |-> getRandomColor(draw[2]) ]

\* Three blocks generated left to right at score s, counter starting at n.
generateInventory(s, d0, d1, d2, n) ==
    [i \in 0 .. 2 |->
        generateRandomBlock(s, IF i = 0 THEN d0 ELSE IF i = 1 THEN d1 ELSE d2,
                            n + i)]

generateInitialInventory(d0, d1, d2, n) == generateInventory(0, d0, d1, d2, n)

\* Faulty variant: every cell of the shape matrix is tested, the false ones
\* included.
canPlaceBlock_WholeMatrix(g, block, position) ==
    \A i \in 1 .. Len(block.shape) : \A j \in 1 .. Len(block.shape[i]) :
        LET gridRow == position.row + i - 1
            gridCol == position.col + j - 1
        IN  /\ isWithinBounds(gridRow, gridCol)
            /\ g[gridRow][gridCol] = NullCell

\* Faulty variant: only the bounds are checked, an occupied cell is accepted.
canPlaceBlock_IgnoreOccupied(g, block, position) ==
    LET shapeCells == getShapeCells(block.shape)
    IN  \A k \in 1 .. Len(shapeCells) :
            isWithinBounds(position.row + shapeCells[k].row,
                           position.col + shapeCells[k].col)

canPlaceBlock(g, block, position) ==
    LET shapeCells == getShapeCells(block.shape)
    IN  \A k \in 1 .. Len(shapeCells) :
            LET gridRow == position.row + shapeCells[k].row
                gridCol == position.col + shapeCells[k].col
            IN  /\ isWithinBounds(gridRow, gridCol)
                /\ g[gridRow][gridCol] = NullCell

getBlockCellsOnGrid(block, position) ==
    LET shapeCells == getShapeCells(block.shape)
    IN  [k \in 1 .. Len(shapeCells) |->
            [row |-> position.row + shapeCells[k].row,
             col |-> position.col + shapeCells[k].col]]

RECURSIVE placeCells(_, _, _, _)
placeCells(g, cells, k, color) ==
    IF k > Len(cells) THEN g
    ELSE placeCells([g EXCEPT ![cells[k].row][cells[k].col] = color],
                    cells, k + 1, color)

\* Faulty variant: every cell of the shape matrix is written, the false ones
\* included.
placeBlock_WholeMatrix(g, block, position) ==
    LET dims == getShapeDimensions(block.shape)
        cells == [k \in 1 .. (dims.rows * dims.cols) |->
                     [row |-> position.row + ((k - 1) \div dims.cols),
                      col |-> position.col + ((k - 1) % dims.cols)]]
    IN  placeCells(g, cells, 1, block.color)

placeBlock(g, block, position) ==
    placeCells(g, getBlockCellsOnGrid(block, position), 1, block.color)

\* Faulty variant: a row counts as complete as soon as some cell is occupied.
RECURSIVE completedRows_AnyCell(_, _)
completedRows_AnyCell(g, row) ==
    IF row >= GRID_SIZE THEN << >>
    ELSE (IF \E col \in Indices : g[row][col] # NullCell
          THEN << row >> ELSE << >>) \o completedRows_AnyCell(g, row + 1)

\* The complete rows from row on, ascending.
RECURSIVE completedRows(_, _)
completedRows(g, row) ==
    IF row >= GRID_SIZE THEN << >>
    ELSE (IF \A col \in Indices : g[row][col] # NullCell
          THEN << row >> ELSE << >>) \o completedRows(g, row + 1)

\* The complete columns from col on, ascending.
RECURSIVE completedCols(_, _)
completedCols(g, col) ==
    IF col >= GRID_SIZE THEN << >>
    ELSE (IF \A row \in Indices : g[row][col] # NullCell
          THEN << col >> ELSE << >>) \o completedCols(g, col + 1)

\* Faulty variant: the count of lines is capped at the size of the grid.
checkLineClears_Capped(g) ==
    LET rows == completedRows(g, 0)
        cols == completedCols(g, 0)
    IN  [ rows |-> rows,
          cols |-> cols,
          totalLines |-> IF Len(rows) + Len(cols) > GRID_SIZE THEN GRID_SIZE
                         ELSE Len(rows) + Len(cols) ]

checkLineClears(g) ==
    LET rows == completedRows(g, 0)
        cols == completedCols(g, 0)
    IN  [ rows |-> rows,
          cols |-> cols,
          totalLines |-> Len(rows) + Len(cols) ]

SeqRange(s) == { s[k] : k \in 1 .. Len(s) }

\* Faulty variant: the listed columns are left as they are.
clearLines_RowsOnly(g, lineClear) ==
    [row \in Indices |-> [col \in Indices |->
        IF row \in SeqRange(lineClear.rows)
        THEN NullCell ELSE g[row][col]]]

clearLines(g, lineClear) ==
    [row \in Indices |-> [col \in Indices |->
        IF row \in SeqRange(lineClear.rows) \/ col \in SeqRange(lineClear.cols)
        THEN NullCell ELSE g[row][col]]]

\* The cells the loops of getCellsToClear visit: the listed rows left to right,
\* then the listed columns top to bottom.
lineCells(lineClear) ==
    [k \in 1 .. (Len(lineClear.rows) * GRID_SIZE) |->
        [row |-> lineClear.rows[((k - 1) \div GRID_SIZE) + 1],
         col |-> (k - 1) % GRID_SIZE]]
    \o
    [k \in 1 .. (Len(lineClear.cols) * GRID_SIZE) |->
        [row |-> (k - 1) % GRID_SIZE,
         col |-> lineClear.cols[((k - 1) \div GRID_SIZE) + 1]]]

\* The visited cells that are pushed: cellSet holds the keys of the cells
\* visited so far, so a cell is pushed at its first visit only.
firstVisits(candidates) ==
    LET unseen(k) == \A j \in 1 .. (k - 1) : candidates[j] # candidates[k]
        kept == SelectSeq([k \in 1 .. Len(candidates) |-> k], unseen)
    IN  [i \in 1 .. Len(kept) |-> candidates[kept[i]]]

\* Faulty variant: a cell is pushed whether or not it was pushed before.
getCellsToClear_NoDedupe(lineClear) == lineCells(lineClear)

getCellsToClear(lineClear) == firstVisits(lineCells(lineClear))

\* Faulty variant: the lines are checked on the grid as it is, without the
\* block.
predictLineClearsAfterPlacement_NoPlacement(g, block, position) ==
    LET lineClear == checkLineClears(g)
    IN  IF lineClear.totalLines = 0 THEN << >>
        ELSE getCellsToClear(lineClear)

predictLineClearsAfterPlacement(g, block, position) ==
    LET simulatedGrid == placeBlock(g, block, position)
        lineClear == checkLineClears(simulatedGrid)
    IN  IF lineClear.totalLines = 0 THEN << >>
        ELSE getCellsToClear(lineClear)

\* Faulty variant: only the first inventory slot is tried.
canPlaceAnyBlock_FirstSlot(g, inv) ==
    /\ inv[0] # Null
    /\ \E row \in Indices : \E col \in Indices :
          canPlaceBlock(g, inv[0], [row |-> row, col |-> col])

\* Faulty variant: the loop over the inventory ends at the first empty slot.
canPlaceAnyBlock_StopAtNull(g, inv) ==
    \E i \in DOMAIN inv :
        /\ \A j \in DOMAIN inv : j <= i => inv[j] # Null
        /\ \E row \in Indices : \E col \in Indices :
              canPlaceBlock(g, inv[i], [row |-> row, col |-> col])

canPlaceAnyBlock(g, inv) ==
    \E i \in DOMAIN inv :
        /\ inv[i] # Null
        /\ \E row \in Indices : \E col \in Indices :
              canPlaceBlock(g, inv[i], [row |-> row, col |-> col])

\* inventory.filter((b) => b !== null) of a three-slot inventory.
filterBlocks(inv) ==
    LET isBlock(b) == b # Null
    IN  SelectSeq([k \in 1 .. 3 |-> inv[k - 1]], isBlock)

\* Faulty variant: false as soon as one slot is empty.
checkGameOver_AnyEmpty(g, inv) ==
    LET blocks == filterBlocks(inv)
    IN  IF Len(blocks) < 3 THEN FALSE
        ELSE ~canPlaceAnyBlock(g, blocks)

checkGameOver(g, inv) ==
    LET blocks == filterBlocks(inv)
    IN  IF Len(blocks) = 0 THEN FALSE
        ELSE ~canPlaceAnyBlock(g, blocks)

\* The multiplier is a multiple of 1/2; it is kept in halves (2 = 1.0x).
MultiplierScale == 2

getBasePoints(lineCount) ==
    IF lineCount <= 0 THEN 0
    ELSE IF lineCount >= 4 THEN 1000 + (lineCount - 4) * 300
    ELSE IF lineCount = 1 THEN 100
    ELSE IF lineCount = 2 THEN 300
    ELSE 600

\* Faulty variant: the multiplier is not capped.
getComboMultiplier_NoCap(comboCount) == MultiplierScale + (comboCount - 1)

\* min(1 + (comboCount - 1) * 0.5, 8), in halves.
getComboMultiplier(comboCount) ==
    LET multiplier == MultiplierScale + (comboCount - 1)
    IN  IF multiplier < 8 * MultiplierScale THEN multiplier
        ELSE 8 * MultiplierScale

\* Faulty variant: the multiplier of combo 0 is getComboMultiplier(0) = 0.5.
calculateScore_AlwaysMultiply(lineClear, comboCount) ==
    LET basePoints == getBasePoints(lineClear.totalLines)
        multiplier == getComboMultiplier(comboCount)
    IN  [ points     |-> (basePoints * multiplier) \div MultiplierScale,
          basePoints |-> basePoints,
          multiplier |-> multiplier ]

calculateScore(lineClear, comboCount) ==
    LET basePoints == getBasePoints(lineClear.totalLines)
        multiplier == IF comboCount > 0 THEN getComboMultiplier(comboCount)
                      ELSE MultiplierScale
    IN  [ points     |-> (basePoints * multiplier) \div MultiplierScale,
          basePoints |-> basePoints,
          multiplier |-> multiplier ]

\* Faulty variant: a placement earns nothing for its cells.
getPlacementPoints_Zero(blockCellCount) == 0

getPlacementPoints(blockCellCount) == blockCellCount

(***************************************************************************)
(* Inputs of the model: the values the environment delivers.               *)
(***************************************************************************)
Pos(r, c) == [row |-> r, col |-> c]

\* highScore of the machine input (absent input counts as 0).
InputHighScores == { 0 }

\* Values delivered with LOAD_HIGH_SCORE.
LoadValues == { 50 }

DragIndexes == 0 .. MaxDragIndex

\* Payloads delivered with DRAG_UPDATE.
DragUpdates == { [position |-> Pos(3, 4), isValid |-> TRUE] }

\* Math.random() pairs <<shape draw, color draw>> of one generateRandomBlock
\* call, and the origins delivered with DROP_BLOCK.
\*
\* Line-clear play: below score 500 the draws give a red line3H and a yellow
\* square2.  Two line3H fill columns 0..5 of row 2 or 3 and a square2 at
\* (2,6) completes one or both rows; a line3H at (2,6) leaves the grid.
BlockDraws == { <<800, 0>>, <<150, 500>> }
LineRestartDraws == { <<800, 0>> }
DropPositions == { Pos(2, 0), Pos(2, 3), Pos(3, 0), Pos(3, 3), Pos(2, 6) }

\* End-game play: an orange lShape2 and an orange lShape1.  Five lShape2 at
\* these origins leave no room for an lShape1 anywhere on the grid while no
\* row or column is complete; an lShape1 at (6,1) leaves the grid.
OverDraws == { <<950, 900>>, <<900, 900>> }
OverRestartDraws == { <<950, 900>> }
OverPositions == { Pos(1, 0), Pos(2, 4), Pos(4, 1), Pos(5, 4), Pos(6, 1) }

\* First-move play: one draw for each of the twelve shapes of the pool below
\* score 500 (single, line2H, line2V, square2, smallL1..4, line3H, line3V,
\* lShape1, lShape2), all red, and the origin (0,0).
FreshDraws ==
    { <<10, 0>>, <<50, 0>>, <<100, 0>>, <<150, 0>>, <<200, 0>>, <<260, 0>>,
      <<310, 0>>, <<360, 0>>, <<800, 0>>, <<850, 0>>, <<900, 0>>, <<950, 0>> }
FreshPositions == { Pos(0, 0) }

\* ---- arguments of the calls of canPlaceBlock and placeBlock ----
\* The grid whose cells in occupied (pairs <<row, col>>) hold color.
GridWith(occupied, color) ==
    [row \in Indices |->
        [col \in Indices |->
            IF <<row, col>> \in occupied THEN color ELSE NullCell]]

\* The empty grid, the two grids of the tests of canPlaceBlock, a checkerboard,
\* and a full grid but for a hole that is an L, a 3x3 corner and a single cell.
CallGrids ==
    { createEmptyGrid,
      GridWith({ <<4, 4>> }, "red"),
      GridWith({ <<4, 5>> }, "red"),
      GridWith({ rc \in Indices \X Indices : (rc[1] + rc[2]) % 2 = 0 }, "red"),
      GridWith((Indices \X Indices) \
                   { <<3, 3>>, <<4, 3>>, <<4, 4>>,
                     <<5, 5>>, <<5, 6>>, <<5, 7>>, <<6, 5>>, <<7, 5>>,
                     <<0, 0>> }, "red") }

\* Every shape of the catalog, in a color no sample grid holds.
CallBlocks ==
    { [id |-> 0, shape |-> BLOCK_SHAPES[n], color |-> "blue"] :
        n \in DOMAIN BLOCK_SHAPES }

\* Origins on the grid, one step before it and one step past it.
CallCoords == -1 .. GRID_SIZE
CallPositions == { Pos(r, c) : r \in CallCoords, c \in CallCoords }

Calls ==
    { [fn |-> f, grid |-> g, block |-> b, position |-> p] :
        f \in { "canPlaceBlock", "placeBlock" }, g \in CallGrids,
        b \in CallBlocks, p \in CallPositions }

\* ---- arguments of the calls of the line functions ----
\* Grids with the rows of fullRows and the columns of fullCols complete and
\* the cells of extra occupied besides.
LineRowSets == (SUBSET { 0, 3, 7 }) \cup { Indices }
LineColSets == (SUBSET { 0, 5, 7 }) \cup { Indices }

\* Nothing, two scattered cells, and row 4 and column 2 complete but for the
\* cell they share.
LineExtras ==
    { {},
      { <<1, 1>>, <<4, 2>> },
      { rc \in Indices \X Indices :
          (rc[1] = 4 \/ rc[2] = 2) /\ rc # <<4, 2>> } }

LineGrids ==
    { GridWith({ rc \in Indices \X Indices :
                   rc[1] \in fullRows \/ rc[2] \in fullCols } \cup extra,
               "red") :
        fullRows \in LineRowSets, fullCols \in LineColSets,
        extra \in LineExtras }

CheckLineClearsCalls ==
    { [fn |-> "checkLineClears", grid |-> g] : g \in LineGrids }

\* Line clear results over the same rows and columns, ascending as
\* checkLineClears lists them; a result need not be the one of the grid it is
\* passed with.
LineRowLists ==
    { << >>, << 0 >>, << 3 >>, << 7 >>, << 0, 3 >>, << 0, 7 >>, << 3, 7 >>,
      << 0, 3, 7 >>, << 0, 1, 2, 3, 4, 5, 6, 7 >> }
LineColLists ==
    { << >>, << 0 >>, << 5 >>, << 7 >>, << 0, 5 >>, << 0, 7 >>, << 5, 7 >>,
      << 0, 5, 7 >>, << 0, 1, 2, 3, 4, 5, 6, 7 >> }
LineResults ==
    { [rows |-> r, cols |-> c, totalLines |-> Len(r) + Len(c)] :
        r \in LineRowLists, c \in LineColLists }

GetCellsToClearCalls ==
    { [fn |-> "getCellsToClear", lineClear |-> lc] : lc \in LineResults }

\* The grids of the placement calls, a grid whose row 4 and column 2 lack
\* only the cell they share, a grid whose row 3 lacks columns 2 to 4, and a
\* grid whose rows 3, 4 and columns 3, 4 lack the cells of an L.
PredictGrids ==
    CallGrids \cup
    { GridWith({ rc \in Indices \X Indices :
                   (rc[1] = 4 \/ rc[2] = 2) /\ rc # <<4, 2>> }, "red"),
      GridWith({ rc \in Indices \X Indices :
                   rc[1] = 3 /\ rc[2] \notin { 2, 3, 4 } }, "red"),
      GridWith({ rc \in Indices \X Indices :
                   /\ rc[1] \in { 3, 4 } \/ rc[2] \in { 3, 4 }
                   /\ rc \notin { <<3, 3>>, <<4, 3>>, <<4, 4>> } }, "red") }
PredictPositions == { Pos(r, c) : r \in Indices, c \in Indices }
PredictCalls ==
    { [fn |-> "predictLineClearsAfterPlacement",
       grid |-> g, block |-> b, position |-> p] :
        g \in PredictGrids, b \in CallBlocks, p \in PredictPositions }

ClearLinesCalls ==
    { [fn |-> "clearLines", grid |-> g, lineClear |-> lc] :
        g \in LineGrids, lc \in LineResults }

\* ---- arguments of the calls of canPlaceAnyBlock and checkGameOver ----
\* The empty grid, the full grid, the full grid but for the corner (0,0), the
\* full grid but for an L of three cells, and a checkerboard.
MoveGrids ==
    { createEmptyGrid,
      GridWith(Indices \X Indices, "red"),
      GridWith((Indices \X Indices) \ { <<0, 0>> }, "red"),
      GridWith((Indices \X Indices) \ { <<3, 3>>, <<4, 3>>, <<4, 4>> }, "red"),
      GridWith({ rc \in Indices \X Indices : (rc[1] + rc[2]) % 2 = 0 }, "red") }

\* An inventory slot: empty, or a block of one of five shapes.
MoveSlots ==
    { Null } \cup
    { [id |-> 0, shape |-> BLOCK_SHAPES[n], color |-> "blue"] :
        n \in { "single", "square2", "smallL1", "line2H", "line5V" } }
MoveInventories == [0 .. 2 -> MoveSlots]

MoveCalls ==
    { [fn |-> f, grid |-> g, inventory |-> inv] :
        f \in { "canPlaceAnyBlock", "checkGameOver" },
        g \in MoveGrids, inv \in MoveInventories }

\* ---- arguments of the calls of the scoring functions ----
\* Line clear results with the first r rows and the first c columns: 0 to 16
\* lines.
ScoreResults ==
    { [rows |-> [k \in 1 .. r |-> k - 1], cols |-> [k \in 1 .. c |-> k - 1],
       totalLines |-> r + c] :
        r \in 0 .. GRID_SIZE, c \in 0 .. GRID_SIZE }

ScoreCalls ==
    { [fn |-> "calculateScore", lineClear |-> lc, comboCount |-> n] :
        lc \in ScoreResults, n \in 0 .. MaxComboCount }

MultiplierCalls ==
    { [fn |-> "getComboMultiplier", comboCount |-> n] :
        n \in 0 .. MaxComboCount }

\* ---- arguments of the calls of generateRandomBlock ----
\* Scores at both ends of each band, every value of the shape draw, and one
\* color draw for each color.
BandScores == { 0, 499, 500, 1499, 1500, 2999, 3000, 5000 }
ShapeDraws == 0 .. (RandDenom - 1)
ColorDraws == { 0, 200, 400, 500, 700, 900 }
GenerateCalls ==
    { [fn |-> "generateRandomBlock", score |-> s, draw |-> <<u, v>>] :
        s \in BandScores, u \in ShapeDraws, v \in ColorDraws }

(***************************************************************************)
(* machines/gameMachine.ts                                                 *)
(***************************************************************************)
RestStates == { "idle", "dragging", "clearing", "gameOver" }

\* An external event is taken from the queue only when no eventless
\* transition is pending.
AtRest == state \in RestStates

\* inventory[i] for any number i: undefined outside the array counts as null.
slot(inv, i) == IF i \in DOMAIN inv THEN inv[i] ELSE Null

\* Faulty variant: the drop is accepted only if the last DRAG_UPDATE said the
\* position was valid.
isValidPlacement_TrustFlag(event) ==
    /\ event.type = "DROP_BLOCK"
    /\ currentDrag # Null
    /\ currentDrag.isValid
    /\ LET block == slot(inventory, currentDrag.blockIndex)
       IN  /\ block # Null
           /\ canPlaceBlock(grid, block, event.position)

\* ---- guards ----
isValidPlacement(event) ==
    /\ event.type = "DROP_BLOCK"
    /\ currentDrag # Null
    /\ LET block == slot(inventory, currentDrag.blockIndex)
       IN  /\ block # Null
           /\ canPlaceBlock(grid, block, event.position)

hasLinesToClear == linesToClear # Null /\ linesToClear.totalLines > 0

\* Faulty variant: any block left counts as a move, the grid is not looked at.
canContinue_IgnoreGrid == \E i \in DOMAIN inventory : inventory[i] # Null

canContinue == canPlaceAnyBlock(grid, inventory)

isInventoryEmpty == \A i \in DOMAIN inventory : inventory[i] = Null

\* ---- actions ----
startDrag(event) ==
    /\ currentDrag' = [blockIndex |-> event.blockIndex,
                       position |-> Null, isValid |-> FALSE]
    /\ UNCHANGED <<grid, inventory, score, highScore, combo, linesToClear,
                   blockIdCounter>>

\* Faulty variant: the drag is rebuilt from the event and loses its slot.
updateDrag_LoseIndex(event) ==
    /\ currentDrag' = IF currentDrag = Null THEN Null
                      ELSE [blockIndex |-> 0, position |-> event.position,
                            isValid |-> event.isValid]
    /\ UNCHANGED <<grid, inventory, score, highScore, combo, linesToClear,
                   blockIdCounter>>

updateDrag(event) ==
    /\ currentDrag' = IF currentDrag = Null THEN Null
                      ELSE [currentDrag EXCEPT !.position = event.position,
                                               !.isValid = event.isValid]
    /\ UNCHANGED <<grid, inventory, score, highScore, combo, linesToClear,
                   blockIdCounter>>

\* Faulty variant: the drag survives the cancellation.
cancelDrag_KeepDrag ==
    UNCHANGED <<grid, inventory, score, highScore, combo, currentDrag,
                linesToClear, blockIdCounter>>

cancelDrag ==
    /\ currentDrag' = Null
    /\ UNCHANGED <<grid, inventory, score, highScore, combo, linesToClear,
                   blockIdCounter>>

\* Faulty variant: the placement earns no points.
placeBlockOnGrid_NoPoints(event) ==
    LET block == slot(inventory, currentDrag.blockIndex)
        newGrid == placeBlock(grid, block, event.position)
        lineClear == checkLineClears(newGrid)
    IN  /\ grid' = newGrid
        /\ inventory' = [inventory EXCEPT ![currentDrag.blockIndex] = Null]
        /\ linesToClear' = IF lineClear.totalLines > 0 THEN lineClear ELSE Null
        /\ currentDrag' = Null
        /\ UNCHANGED <<score, highScore, combo, blockIdCounter>>

\* Faulty variant: the placed block stays in its inventory slot.
placeBlockOnGrid_KeepSlot(event) ==
    LET block == slot(inventory, currentDrag.blockIndex)
        newGrid == placeBlock(grid, block, event.position)
        lineClear == checkLineClears(newGrid)
    IN  /\ grid' = newGrid
        /\ inventory' = inventory
        /\ score' = score + getPlacementPoints(Len(getShapeCells(block.shape)))
        /\ linesToClear' = IF lineClear.totalLines > 0 THEN lineClear ELSE Null
        /\ currentDrag' = Null
        /\ UNCHANGED <<highScore, combo, blockIdCounter>>

placeBlockOnGrid(event) ==
    LET block == slot(inventory, currentDrag.blockIndex)
        newGrid == placeBlock(grid, block, event.position)
        newInventory == [inventory EXCEPT ![currentDrag.blockIndex] = Null]
        cellCount == Len(getShapeCells(block.shape))
        placementPoints == getPlacementPoints(cellCount)
        lineClear == checkLineClears(newGrid)
    IN  /\ grid' = newGrid
        /\ inventory' = newInventory
        /\ score' = score + placementPoints
        /\ linesToClear' = IF lineClear.totalLines > 0 THEN lineClear ELSE Null
        /\ currentDrag' = Null
        /\ UNCHANGED <<highScore, combo, blockIdCounter>>

\* Faulty variant: the clear is scored with the combo before the increment.
clearLinesFromGrid_OldCombo ==
    IF linesToClear = Null
    THEN UNCHANGED <<grid, inventory, score, highScore, combo, currentDrag,
                     linesToClear, blockIdCounter>>
    ELSE /\ grid' = clearLines(grid, linesToClear)
         /\ score' = score + calculateScore(linesToClear, combo).points
         /\ combo' = combo + 1
         /\ linesToClear' = Null
         /\ UNCHANGED <<inventory, highScore, currentDrag, blockIdCounter>>

\* Faulty variant: the points are awarded but the lines stay on the grid.
clearLinesFromGrid_KeepGrid ==
    IF linesToClear = Null
    THEN UNCHANGED <<grid, inventory, score, highScore, combo, currentDrag,
                     linesToClear, blockIdCounter>>
    ELSE LET newCombo == combo + 1
             points == calculateScore(linesToClear, newCombo).points
         IN  /\ grid' = grid
             /\ score' = score + points
             /\ combo' = newCombo
             /\ linesToClear' = Null
             /\ UNCHANGED <<inventory, highScore, currentDrag, blockIdCounter>>

clearLinesFromGrid ==
    IF linesToClear = Null
    THEN UNCHANGED <<grid, inventory, score, highScore, combo, currentDrag,
                     linesToClear, blockIdCounter>>
    ELSE LET clearedGrid == clearLines(grid, linesToClear)
             newCombo == combo + 1
             points == calculateScore(linesToClear, newCombo).points
         IN  /\ grid' = clearedGrid
             /\ score' = score + points
             /\ combo' = newCombo
             /\ linesToClear' = Null
             /\ UNCHANGED <<inventory, highScore, currentDrag, blockIdCounter>>

\* Faulty variant: the pending clear is dropped but the combo survives.
resetCombo_Keep ==
    /\ linesToClear' = Null
    /\ UNCHANGED <<grid, inventory, score, highScore, combo, currentDrag,
                   blockIdCounter>>

resetCombo ==
    /\ combo' = 0
    /\ linesToClear' = Null
    /\ UNCHANGED <<grid, inventory, score, highScore, currentDrag,
                   blockIdCounter>>

\* Faulty variant: only the first slot is refilled.
refillInventory_OneBlock(d0, d1, d2) ==
    /\ inventory' = [inventory EXCEPT
                        ![0] = generateRandomBlock(score, d0, blockIdCounter)]
    /\ blockIdCounter' = blockIdCounter + 1
    /\ UNCHANGED <<grid, score, highScore, combo, currentDrag, linesToClear>>

\* Faulty variant: the refill is generated for the opening score band.
refillInventory_OpeningBand(d0, d1, d2) ==
    /\ inventory' = generateInventory(0, d0, d1, d2, blockIdCounter)
    /\ blockIdCounter' = blockIdCounter + 3
    /\ UNCHANGED <<grid, score, highScore, combo, currentDrag, linesToClear>>

refillInventory(d0, d1, d2) ==
    /\ inventory' = generateInventory(score, d0, d1, d2, blockIdCounter)
    /\ blockIdCounter' = blockIdCounter + 3
    /\ UNCHANGED <<grid, score, highScore, combo, currentDrag, linesToClear>>

\* Faulty variant: the finished game's score is not folded into highScore.
updateHighScore_Keep ==
    UNCHANGED <<grid, inventory, score, highScore, combo, currentDrag,
                linesToClear, blockIdCounter>>

updateHighScore ==
    /\ highScore' = IF score > highScore THEN score ELSE highScore
    /\ UNCHANGED <<grid, inventory, score, combo, currentDrag, linesToClear,
                   blockIdCounter>>

\* Faulty variant: a loaded value below the current high score is not taken.
loadHighScore_KeepMax(event) ==
    /\ highScore' = IF event.highScore > highScore THEN event.highScore
                    ELSE highScore
    /\ UNCHANGED <<grid, inventory, score, combo, currentDrag, linesToClear,
                   blockIdCounter>>

loadHighScore(event) ==
    /\ highScore' = event.highScore
    /\ UNCHANGED <<grid, inventory, score, combo, currentDrag, linesToClear,
                   blockIdCounter>>

\* Faulty variant: the score of the abandoned game survives the reset.
resetGame_KeepScore(d0, d1, d2) ==
    /\ grid' = createEmptyGrid
    /\ inventory' = generateInitialInventory(d0, d1, d2, blockIdCounter)
    /\ blockIdCounter' = blockIdCounter + 3
    /\ UNCHANGED <<score, highScore>>
    /\ combo' = 0
    /\ currentDrag' = Null
    /\ linesToClear' = Null

\* Faulty variant: the reset folds the abandoned game's score into highScore.
resetGame_FoldScore(d0, d1, d2) ==
    /\ grid' = createEmptyGrid
    /\ inventory' = generateInitialInventory(d0, d1, d2, blockIdCounter)
    /\ blockIdCounter' = blockIdCounter + 3
    /\ score' = 0
    /\ highScore' = IF score > highScore THEN score ELSE highScore
    /\ combo' = 0
    /\ currentDrag' = Null
    /\ linesToClear' = Null

\* createInitialContext({highScore: context.highScore})
resetGame(d0, d1, d2) ==
    /\ grid' = createEmptyGrid
    /\ inventory' = generateInitialInventory(d0, d1, d2, blockIdCounter)
    /\ blockIdCounter' = blockIdCounter + 3
    /\ score' = 0
    /\ highScore' = highScore
    /\ combo' = 0
    /\ currentDrag' = Null
    /\ linesToClear' = Null

\* ---- hooks/useGameState.ts: the reducer the machine replaces ----
\* Faulty variant: a clear is scored with the combo as it was before it.
PLACE_BLOCK_OldCombo(st, blockIndex, position) ==
    LET block == slot(st.inventory, blockIndex)
    IN  IF block = Null \/ ~canPlaceBlock(st.grid, block, position)
        THEN st
        ELSE LET newGrid == placeBlock(st.grid, block, position)
                 newInventory == [st.inventory EXCEPT ![blockIndex] = Null]
                 placementPoints ==
                     getPlacementPoints(Len(getShapeCells(block.shape)))
                 lineClear == checkLineClears(newGrid)
             IN  IF lineClear.totalLines > 0
                 THEN [st EXCEPT
                         !.grid = clearLines(newGrid, lineClear),
                         !.inventory = newInventory,
                         !.score = st.score + placementPoints
                                   + calculateScore(lineClear, st.combo).points,
                         !.combo = st.combo + 1]
                 ELSE [st EXCEPT
                         !.grid = newGrid,
                         !.inventory = newInventory,
                         !.score = st.score + placementPoints,
                         !.combo = 0]

\* gameReducer, case PLACE_BLOCK: the state that follows st (grid, inventory,
\* score, highScore, combo, isGameOver).
PLACE_BLOCK(st, blockIndex, position) ==
    LET block == slot(st.inventory, blockIndex)
    IN  IF block = Null \/ ~canPlaceBlock(st.grid, block, position)
        THEN st
        ELSE LET newGrid == placeBlock(st.grid, block, position)
                 newInventory == [st.inventory EXCEPT ![blockIndex] = Null]
                 cellCount == Len(getShapeCells(block.shape))
                 placementPoints == getPlacementPoints(cellCount)
                 lineClear == checkLineClears(newGrid)
             IN  IF lineClear.totalLines > 0
                 THEN LET clearedGrid == clearLines(newGrid, lineClear)
                          newCombo == st.combo + 1
                          points == calculateScore(lineClear, newCombo).points
                      IN  [st EXCEPT
                             !.grid = clearedGrid,
                             !.inventory = newInventory,
                             !.score = st.score + placementPoints + points,
                             !.combo = newCombo]
                 ELSE [st EXCEPT
                         !.grid = newGrid,
                         !.inventory = newInventory,
                         !.score = st.score + placementPoints,
                         !.combo = 0]

\* ---- history ----
\* The block in the dragged slot, Null when nothing is dragged.
draggedBlock ==
    IF currentDrag = Null THEN Null ELSE slot(inventory, currentDrag.blockIndex)

Snapshot ==
    [ state |-> state, score |-> score, combo |-> combo,
      highScore |-> highScore, dragged |-> draggedBlock ]

\* The machine takes a transition on the event: it is recorded together with
\* what the machine held when it arrived.
Record(event) ==
    lastEvent' = event /\ pre' = Snapshot /\ UNCHANGED <<call, result>>

HasFullLine(g) ==
    \/ \E row \in Indices : \A col \in Indices : g[row][col] # NullCell
    \/ \E col \in Indices : \A row \in Indices : g[row][col] # NullCell

\* An event the current state does not list: the snapshot stays as it is.
Ignored == UNCHANGED vars

\* ---- createInitialContext / initial: "idle" ----
Start(Draws) ==
    /\ state = "idle"
    /\ grid = createEmptyGrid
    /\ \E d0 \in Draws, d1 \in Draws, d2 \in Draws :
          inventory = generateInitialInventory(d0, d1, d2, 0)
    /\ blockIdCounter = 3
    /\ score = 0
    /\ highScore \in InputHighScores
    /\ combo = 0
    /\ currentDrag = Null
    /\ linesToClear = Null
    /\ lastEvent = [type |-> "xstate.init"]
    /\ pre = Snapshot
    /\ streak = 0
    /\ call = Null
    /\ result = << >>

\* Faulty variant: DRAG_START is taken in every resting state.
DRAG_START_AnyState(blockIndex) ==
    LET event == [type |-> "DRAG_START", blockIndex |-> blockIndex]
    IN  /\ AtRest
        /\ state' = "dragging"
        /\ startDrag(event)
        /\ Record(event)
        /\ UNCHANGED streak

\* ---- external events ----
DRAG_START(blockIndex) ==
    LET event == [type |-> "DRAG_START", blockIndex |-> blockIndex]
    IN  /\ AtRest
        /\ IF state = "idle"
           THEN /\ state' = "dragging"
                /\ startDrag(event)
                /\ Record(event)
                /\ UNCHANGED streak
           ELSE Ignored

DRAG_UPDATE(position, isValid) ==
    LET event == [type |-> "DRAG_UPDATE", position |-> position,
                  isValid |-> isValid]
    IN  /\ AtRest
        /\ IF state = "dragging"
           THEN /\ state' = "dragging"
                /\ updateDrag(event)
                /\ Record(event)
                /\ UNCHANGED streak
           ELSE Ignored

\* Faulty variant: every resting state lists DRAG_CANCEL.
DRAG_CANCEL_AnyState ==
    /\ AtRest
    /\ state' = "idle"
    /\ cancelDrag
    /\ Record([type |-> "DRAG_CANCEL"])
    /\ UNCHANGED streak

DRAG_CANCEL ==
    LET event == [type |-> "DRAG_CANCEL"]
    IN  /\ AtRest
        /\ IF state = "dragging"
           THEN /\ state' = "idle"
                /\ cancelDrag
                /\ Record(event)
                /\ UNCHANGED streak
           ELSE Ignored

DROP_BLOCK(position) ==
    LET event == [type |-> "DROP_BLOCK", position |-> position]
    IN  /\ AtRest
        /\ IF state = "dragging"
           THEN IF isValidPlacement(event)
                THEN /\ state' = "placing"
                     /\ placeBlockOnGrid(event)
                     /\ Record(event)
                     /\ streak' = IF HasFullLine(grid') THEN streak + 1 ELSE 0
                ELSE /\ state' = "idle"
                     /\ cancelDrag
                     /\ Record(event)
                     /\ UNCHANGED streak
           ELSE Ignored

\* Faulty variant: every resting state lists CLEAR_COMPLETE.
CLEAR_COMPLETE_AnyState ==
    /\ AtRest
    /\ state' = "checkingGameOver"
    /\ UNCHANGED <<grid, inventory, score, highScore, combo, currentDrag,
                   linesToClear, blockIdCounter>>
    /\ Record([type |-> "CLEAR_COMPLETE"])
    /\ UNCHANGED streak

CLEAR_COMPLETE ==
    LET event == [type |-> "CLEAR_COMPLETE"]
    IN  /\ AtRest
        /\ IF state = "clearing"
           THEN /\ state' = "checkingGameOver"
                /\ UNCHANGED <<grid, inventory, score, highScore, combo,
                               currentDrag, linesToClear, blockIdCounter>>
                /\ Record(event)
                /\ UNCHANGED streak
           ELSE Ignored

\* Faulty variant: every resting state lists RESTART.
RESTART_AnyState(Draws) ==
    /\ AtRest
    /\ state' = "idle"
    /\ \E d0 \in Draws, d1 \in Draws, d2 \in Draws : resetGame(d0, d1, d2)
    /\ Record([type |-> "RESTART"])
    /\ streak' = 0

RESTART(Draws) ==
    LET event == [type |-> "RESTART"]
    IN  /\ AtRest
        /\ IF state \in { "idle", "gameOver" }
           THEN /\ state' = "idle"
                /\ \E d0 \in Draws, d1 \in Draws, d2 \in Draws :
                      resetGame(d0, d1, d2)
                /\ Record(event)
                /\ streak' = 0
           ELSE Ignored

LOAD_HIGH_SCORE(value) ==
    LET event == [type |-> "LOAD_HIGH_SCORE", highScore |-> value]
    IN  /\ AtRest
        /\ IF state = "idle"
           THEN /\ state' = "idle"
                /\ loadHighScore(event)
                /\ Record(event)
                /\ UNCHANGED streak
           ELSE Ignored

\* ---- eventless transitions ----
\* Faulty variant: the unguarded fallback of placing.always is missing.
PlacingAlways_NoFallback ==
    /\ state = "placing"
    /\ UNCHANGED <<lastEvent, pre, streak, call, result>>
    /\ hasLinesToClear
    /\ state' = "clearing"
    /\ clearLinesFromGrid

\* placing.always; entering clearing runs its entry action.
PlacingAlways ==
    /\ state = "placing"
    /\ UNCHANGED <<lastEvent, pre, streak, call, result>>
    /\ IF hasLinesToClear
       THEN state' = "clearing" /\ clearLinesFromGrid
       ELSE state' = "checkingGameOver" /\ resetCombo

\* Faulty variant: the decision has no transition for a game that is over.
CheckingGameOverAlways_NoGameOver(Draws) ==
    /\ state = "checkingGameOver"
    /\ UNCHANGED <<lastEvent, pre, streak, call, result>>
    /\ IF isInventoryEmpty
       THEN /\ state' = "checkingGameOver"
            /\ \E d0 \in Draws, d1 \in Draws, d2 \in Draws :
                  refillInventory(d0, d1, d2)
       ELSE /\ canContinue
            /\ state' = "idle"
            /\ UNCHANGED <<grid, inventory, score, highScore, combo,
                           currentDrag, linesToClear, blockIdCounter>>

\* checkingGameOver.always, the guards tried in order.
CheckingGameOverAlways(Draws) ==
    /\ state = "checkingGameOver"
    /\ UNCHANGED <<lastEvent, pre, streak, call, result>>
    /\ IF isInventoryEmpty
       THEN /\ state' = "checkingGameOver"
            /\ \E d0 \in Draws, d1 \in Draws, d2 \in Draws :
                  refillInventory(d0, d1, d2)
       ELSE IF canContinue
            THEN /\ state' = "idle"
                 /\ UNCHANGED <<grid, inventory, score, highScore, combo,
                                currentDrag, linesToClear, blockIdCounter>>
            ELSE state' = "gameOver" /\ updateHighScore

\* idle.always: refill on an empty inventory.  No transition enters idle with
\* an empty inventory (IdleInventoryNotEmpty), so it never fires and is not
\* part of the next-state relation.
IdleAlways(Draws) ==
    /\ state = "idle"
    /\ isInventoryEmpty
    /\ UNCHANGED <<state, lastEvent, pre, streak, call, result>>
    /\ \E d0 \in Draws, d1 \in Draws, d2 \in Draws :
          refillInventory(d0, d1, d2)

(***************************************************************************)
(* The run: inputs and bounds.                                             *)
(***************************************************************************)
\* Room under the cap for three more blocks.
CanGenerate(MaxIds) == blockIdCounter + 3 <= MaxIds

\* The drop would be accepted and would take the last block of the inventory.
TakesLastBlock(position) ==
    /\ state = "dragging"
    /\ \A i \in DOMAIN inventory :
          i # currentDrag.blockIndex => inventory[i] = Null
    /\ isValidPlacement([type |-> "DROP_BLOCK", position |-> position])

\* One step of the machine under the given inputs: Draws for the refills,
\* RestartDraws for the inventory of a restarted game.  An event that makes the
\* machine generate blocks is delivered only while the cap leaves room.
Step(Draws, RestartDraws, Positions, MaxIds) ==
    \/ \E i \in DragIndexes : DRAG_START(i)
    \/ \E u \in DragUpdates : DRAG_UPDATE(u.position, u.isValid)
    \/ DRAG_CANCEL
    \/ \E p \in Positions :
          /\ TakesLastBlock(p) => CanGenerate(MaxIds)
          /\ DROP_BLOCK(p)
    \/ CLEAR_COMPLETE
    \/ /\ state \in { "idle", "gameOver" } => CanGenerate(MaxIds)
       /\ RESTART(RestartDraws)
    \/ \E v \in LoadValues : LOAD_HIGH_SCORE(v)
    \/ PlacingAlways
    \/ CheckingGameOverAlways(Draws)

Init == Start(BlockDraws)
Next == Step(BlockDraws, LineRestartDraws, DropPositions, MaxBlockIds)
Spec == Init /\ [][Next]_vars

InitOver == Start(OverDraws)
NextOver == Step(OverDraws, OverRestartDraws, OverPositions, MaxBlockIdsOver)
SpecOver == InitOver /\ [][NextOver]_vars

InitFresh == Start(FreshDraws)
NextFresh ==
    Step(FreshDraws, LineRestartDraws, FreshPositions, MaxBlockIdsFresh)
SpecFresh == InitFresh /\ [][NextFresh]_vars

\* ---- late play: a game in progress ----
\* The game has gone like this: with single blocks only, three rows were
\* completed and cleared one at a time, each clear following a placement that
\* cleared nothing (24 cells and 3 x 100 points); then 48 singles built the
\* grid below, in which every row and every column keeps two empty cells, no
\* two of them adjacent (48 more points, no clear).  72 blocks are placed, the
\* 24th inventory is spent, and the refill that followed the last placement
\* drew singles and line2H blocks of which at least one can be placed.  A
\* single at (0,4) and one at (4,0) leave (0,0) as the last empty cell of row 0
\* and of column 0; two singles at (0,0) and (1,1) leave no room for a line2H.
LateHoles ==
    { <<r, r>> : r \in Indices } \cup { <<r, (r + 4) % GRID_SIZE>> : r \in Indices }
LateGrid ==
    GridWith({ <<row, col>> \in Indices \X Indices :
                   <<row, col>> \notin LateHoles }, "red")
LateDraws == { <<10, 0>>, <<50, 0>> }
LateRefillDraws == { <<800, 0>> }
LateRestartDraws == { <<10, 0>> }
LatePositions == { Pos(0, 0), Pos(0, 4), Pos(4, 0), Pos(1, 1) }
\* A DRAG_UPDATE of the gesture handler over a cell the block cannot take.
LateDragUpdates == { [position |-> Pos(0, 1), isValid |-> FALSE] }
\* A LOAD_HIGH_SCORE below the scores of this game.
LateLoadValues == { 7 }

InitLate ==
    /\ state = "idle"
    /\ grid = LateGrid
    /\ \E d0 \in LateDraws, d1 \in LateDraws, d2 \in LateDraws :
          inventory = generateInventory(LateScore, d0, d1, d2, LatePlaced)
    /\ canPlaceAnyBlock(grid, inventory)
    /\ blockIdCounter = LatePlaced + 3
    /\ score = LateScore
    /\ highScore \in InputHighScores
    /\ combo = 0
    /\ currentDrag = Null
    /\ linesToClear = Null
    /\ lastEvent = [type |-> "DROP_BLOCK", position |-> Pos(7, 6)]
    /\ pre = [ state |-> "dragging", score |-> LateScore - 1, combo |-> 0,
               highScore |-> highScore,
               dragged |-> generateRandomBlock(LateScore - 1, <<10, 0>>,
                                               LatePlaced - 1) ]
    /\ streak = 0
    /\ call = Null
    /\ result = << >>
NextLate ==
    \/ Step(LateRefillDraws, LateRestartDraws, LatePositions, MaxBlockIdsLate)
    \/ \E u \in LateDragUpdates : DRAG_UPDATE(u.position, u.isValid)
    \/ \E v \in LateLoadValues : LOAD_HIGH_SCORE(v)
SpecLate == InitLate /\ [][NextLate]_vars

\* Late play with the scheduling the turn relies on: XState runs the
\* eventless transitions of placing and checkingGameOver as part of the
\* macrostep of the event, and GameScreen sends CLEAR_COMPLETE when the
\* machine is in clearing (at once when linesToClear is null, else when the
\* clearing animation ends).
ClearCompleteWhileClearing == state = "clearing" /\ CLEAR_COMPLETE
SpecLateLive ==
    /\ InitLate
    /\ [][NextLate]_vars
    /\ WF_vars(PlacingAlways)
    /\ WF_vars(CheckingGameOverAlways(LateRefillDraws))
    /\ WF_vars(ClearCompleteWhileClearing)

\* ---- calls of the grid functions ----
\* canPlaceBlock(grid, block, position) returns.
CanPlaceBlockCall ==
    /\ call # Null
    /\ call.fn = "canPlaceBlock"
    /\ result = << >>
    /\ result' = << canPlaceBlock(call.grid, call.block, call.position) >>
    /\ UNCHANGED <<state, ctx, blockIdCounter, lastEvent, pre, streak, call>>

\* placeBlock(grid, block, position) returns.  Its callers call it after
\* canPlaceBlock accepted the placement.  It writes into a copy of the rows,
\* so the arguments are in memory as they were.
PlaceBlockCall ==
    /\ call # Null
    /\ call.fn = "placeBlock"
    /\ result = << >>
    /\ canPlaceBlock(call.grid, call.block, call.position)
    /\ result' = << placeBlock(call.grid, call.block, call.position) >>
    /\ UNCHANGED <<state, ctx, blockIdCounter, lastEvent, pre, streak, call>>

\* A machine that is not running, and one call with arguments drawn from Calls.
InitGrid ==
    /\ state = "idle"
    /\ grid = createEmptyGrid
    /\ inventory = generateInitialInventory(<<800, 0>>, <<800, 0>>, <<800, 0>>, 0)
    /\ blockIdCounter = 3
    /\ score = 0
    /\ highScore = 0
    /\ combo = 0
    /\ currentDrag = Null
    /\ linesToClear = Null
    /\ lastEvent = [type |-> "xstate.init"]
    /\ pre = Snapshot
    /\ streak = 0
    /\ call \in Calls
    /\ result = << >>
NextGrid == CanPlaceBlockCall \/ PlaceBlockCall
SpecGrid == InitGrid /\ [][NextGrid]_vars

\* ---- calls of the line functions ----
\* The machine as created and not running, while a function is called.
MachineAtStart ==
    /\ state = "idle"
    /\ grid = createEmptyGrid
    /\ inventory = generateInitialInventory(<<800, 0>>, <<800, 0>>, <<800, 0>>, 0)
    /\ blockIdCounter = 3
    /\ score = 0
    /\ highScore = 0
    /\ combo = 0
    /\ currentDrag = Null
    /\ linesToClear = Null
    /\ lastEvent = [type |-> "xstate.init"]
    /\ pre = Snapshot
    /\ streak = 0

\* The call returns value; nothing else changes.
Return(value) ==
    /\ result = << >>
    /\ result' = << value >>
    /\ UNCHANGED <<state, ctx, blockIdCounter, lastEvent, pre, streak, call>>

CheckLineClearsCall ==
    /\ call # Null
    /\ call.fn = "checkLineClears"
    /\ Return(checkLineClears(call.grid))

\* clearLines writes into a copy of the rows.
ClearLinesCall ==
    /\ call # Null
    /\ call.fn = "clearLines"
    /\ Return(clearLines(call.grid, call.lineClear))

GetCellsToClearCall ==
    /\ call # Null
    /\ call.fn = "getCellsToClear"
    /\ Return(getCellsToClear(call.lineClear))

\* predictLineClearsAfterPlacement(grid, block, position) returns.  Its caller
\* calls it for a placement canPlaceBlock accepted; placeBlock copies the rows,
\* so the grid passed is in memory as it was.
PredictCall ==
    /\ call # Null
    /\ call.fn = "predictLineClearsAfterPlacement"
    /\ canPlaceBlock(call.grid, call.block, call.position)
    /\ Return(predictLineClearsAfterPlacement(call.grid, call.block,
                                              call.position))

InitLines ==
    /\ MachineAtStart
    /\ \/ call \in CheckLineClearsCalls
       \/ call \in ClearLinesCalls
       \/ call \in GetCellsToClearCalls
       \/ call \in PredictCalls
    /\ result = << >>
NextLines ==
    \/ CheckLineClearsCall
    \/ ClearLinesCall
    \/ GetCellsToClearCall
    \/ PredictCall
SpecLines == InitLines /\ [][NextLines]_vars

\* ---- calls of canPlaceAnyBlock and checkGameOver ----
CanPlaceAnyBlockCall ==
    /\ call # Null
    /\ call.fn = "canPlaceAnyBlock"
    /\ Return(canPlaceAnyBlock(call.grid, call.inventory))

CheckGameOverCall ==
    /\ call # Null
    /\ call.fn = "checkGameOver"
    /\ Return(checkGameOver(call.grid, call.inventory))

InitMoves ==
    /\ MachineAtStart
    /\ call \in MoveCalls
    /\ result = << >>
NextMoves ==
    \/ CanPlaceAnyBlockCall
    \/ CheckGameOverCall
SpecMoves == InitMoves /\ [][NextMoves]_vars

\* ---- calls of the scoring functions ----
CalculateScoreCall ==
    /\ call # Null
    /\ call.fn = "calculateScore"
    /\ Return(calculateScore(call.lineClear, call.comboCount))

GetComboMultiplierCall ==
    /\ call # Null
    /\ call.fn = "getComboMultiplier"
    /\ Return(getComboMultiplier(call.comboCount))

InitScore ==
    /\ MachineAtStart
    /\ \/ call \in ScoreCalls
       \/ call \in MultiplierCalls
    /\ result = << >>
NextScore ==
    \/ CalculateScoreCall
    \/ GetComboMultiplierCall
SpecScore == InitScore /\ [][NextScore]_vars

\* ---- calls of generateRandomBlock ----
\* generateRandomBlock(score) returns; generateBlockId has advanced the
\* counter.
GenerateRandomBlockCall ==
    /\ call # Null
    /\ call.fn = "generateRandomBlock"
    /\ result = << >>
    /\ result' = << generateRandomBlock(call.score, call.draw, blockIdCounter) >>
    /\ blockIdCounter' = blockIdCounter + 1
    /\ UNCHANGED <<state, ctx, lastEvent, pre, streak, call>>

InitBlocks ==
    /\ MachineAtStart
    /\ call \in GenerateCalls
    /\ result = << >>
NextBlocks == GenerateRandomBlockCall
SpecBlocks == InitBlocks /\ [][NextBlocks]_vars

(***************************************************************************)
(* Properties.  They describe the grid, the shapes and the points in their *)
(* own terms rather than through the operators of the model.               *)
(***************************************************************************)
\* The guard of idle.always is false in every reachable idle state.
IdleInventoryNotEmpty == state = "idle" => ~isInventoryEmpty

Max(a, b) == IF a > b THEN a ELSE b

\* Occupied cells of a shape matrix.
OccupiedCount(shape) ==
    Cardinality({ rc \in (1 .. Len(shape)) \X (1 .. Len(shape[1])) :
                    shape[rc[1]][rc[2]] })

\* Grid cell (row, col) is under an occupied cell of shape put at pos.
Covered(shape, pos, row, col) ==
    LET i == row - pos.row + 1
        j == col - pos.col + 1
    IN  /\ i \in 1 .. Len(shape)
        /\ j \in 1 .. Len(shape[i])
        /\ shape[i][j]

\* Every occupied cell of shape put at pos is on the grid and free.
Fits(g, shape, pos) ==
    \A i \in 1 .. Len(shape) : \A j \in 1 .. Len(shape[i]) :
        shape[i][j] =>
            /\ pos.row + i - 1 \in 0 .. 7
            /\ pos.col + j - 1 \in 0 .. 7
            /\ g[pos.row + i - 1][pos.col + j - 1] = NullCell

FullRows(g) == { r \in 0 .. 7 : \A c \in 0 .. 7 : g[r][c] # NullCell }
FullCols(g) == { c \in 0 .. 7 : \A r \in 0 .. 7 : g[r][c] # NullCell }
FullLines(g) == Cardinality(FullRows(g)) + Cardinality(FullCols(g))

AllEmpty(g) ==
    /\ DOMAIN g = 0 .. 7
    /\ \A r \in 0 .. 7 : DOMAIN g[r] = 0 .. 7
    /\ \A r \in 0 .. 7 : \A c \in 0 .. 7 : g[r][c] = NullCell

\* floor(basePoints(n) * comboMultiplier(c)) for n >= 1 lines at combo c >= 1:
\* 100 / 300 / 600 / 1000 + 300 per line beyond four, times 1 + (c - 1) / 2
\* capped at 8.
LinePoints(n, c) ==
    LET base == IF n = 1 THEN 100 ELSE IF n = 2 THEN 300
                ELSE IF n = 3 THEN 600 ELSE 1000 + 300 * (n - 4)
        halves == IF c + 1 < 16 THEN c + 1 ELSE 16
    IN  (base * halves) \div 2

\* The step is the machine taking DROP_BLOCK in dragging.
DropStep == state = "dragging" /\ lastEvent'.type = "DROP_BLOCK"

\* The block of the dragged slot is there and fits at the drop position.
DropFits ==
    LET B == slot(inventory, currentDrag.blockIndex)
    IN  B # Null /\ Fits(grid, B.shape, lastEvent'.position)

\* The step is the machine taking RESTART in the given state.
RestartStep(from) == state = from /\ lastEvent'.type = "RESTART"

\* inventory' holds three blocks generated by this step at score 0.
FreshInventory ==
    /\ DOMAIN inventory' = 0 .. 2
    /\ \A i \in 0 .. 2 :
          /\ inventory'[i] # Null
          /\ inventory'[i].id >= blockIdCounter
          /\ \E k \in 1 .. Len(availableShapes(0)) :
                inventory'[i].shape = BLOCK_SHAPES[availableShapes(0)[k]]
    /\ \A i \in 0 .. 2 : \A j \in 0 .. 2 :
          i # j => inventory'[i].id # inventory'[j].id

\* C1: in dragging, a DROP_BLOCK(pos) whose dragged slot holds a block B that
\* fits at pos leads to placing with the cells under B set to B's color and
\* every other cell kept, the dragged slot emptied and the other two slots
\* kept, score raised by the number of occupied cells of B, currentDrag
\* cleared, and linesToClear set to checkLineClears of the new grid when that
\* grid has a complete line and to null otherwise.
C1_DropCommits ==
    [][ (DropStep /\ DropFits) =>
          LET B == slot(inventory, currentDrag.blockIndex)
              pos == lastEvent'.position
              idx == currentDrag.blockIndex
          IN  /\ state' = "placing"
              /\ \A r \in 0 .. 7 : \A c \in 0 .. 7 :
                    grid'[r][c] = IF Covered(B.shape, pos, r, c) THEN B.color
                                  ELSE grid[r][c]
              /\ inventory'[idx] = Null
              /\ \A i \in 0 .. 2 : i # idx => inventory'[i] = inventory[i]
              /\ score' = score + OccupiedCount(B.shape)
              /\ currentDrag' = Null
              /\ linesToClear' = IF FullLines(grid') > 0
                                 THEN checkLineClears(grid') ELSE Null
      ]_vars

\* A placement was committed that completed two lines at once.
C1_Witness ==
    /\ state = "placing"
    /\ lastEvent.type = "DROP_BLOCK"
    /\ linesToClear # Null
    /\ linesToClear.totalLines = 2
    /\ score = pre.score + OccupiedCount(pre.dragged.shape)

\* C2: in dragging, a DROP_BLOCK(pos) whose dragged slot holds no block
\* (empty slot or index outside 0..2) or whose block does not fit at pos (a
\* cell off the grid or occupied) leads to idle with currentDrag cleared and
\* grid, inventory, score, combo, highScore and linesToClear as they were.
C2_RejectedDrop ==
    [][ (DropStep /\ ~DropFits) =>
          /\ state' = "idle"
          /\ currentDrag' = Null
          /\ UNCHANGED <<grid, inventory, score, combo, highScore,
                         linesToClear>>
      ]_vars

\* A line3H dropped at (2,6) was rejected for leaving the grid, mid-game.
C2_Witness ==
    /\ state = "idle"
    /\ lastEvent = [type |-> "DROP_BLOCK", position |-> Pos(2, 6)]
    /\ pre.state = "dragging"
    /\ pre.dragged # Null
    /\ pre.dragged.shape = BLOCK_SHAPES.line3H
    /\ score > 0

\* C3: when the committed placement completed n >= 1 lines while combo = c,
\* the machine enters clearing with the complete rows and columns emptied,
\* score raised by floor(basePoints(n) * comboMultiplier(c + 1)) and combo =
\* c + 1; since the drop the score has grown by the cells of the block plus
\* those points.
C3_ClearScoring ==
    [][ (state = "placing" /\ FullLines(grid) >= 1) =>
          LET n == FullLines(grid)
              points == LinePoints(n, combo + 1)
          IN  /\ state' = "clearing"
              /\ \A r \in 0 .. 7 : \A c \in 0 .. 7 :
                    grid'[r][c] = IF r \in FullRows(grid) \/ c \in FullCols(grid)
                                  THEN NullCell ELSE grid[r][c]
              /\ score' = score + points
              /\ combo' = combo + 1
              /\ combo = pre.combo
              /\ score' = pre.score + OccupiedCount(pre.dragged.shape) + points
      ]_vars

\* A second clear in a row: one line at combo 1 is worth 150.
C3_Witness ==
    /\ state = "clearing"
    /\ combo = 2
    /\ score = pre.score + OccupiedCount(pre.dragged.shape) + 150

\* C4: whenever the machine rests, combo is the number of most recent
\* accepted placements in a row, since the game began or was restarted, that
\* each completed a line (streak counts exactly those).
C4_ComboIsStreak == AtRest => combo = streak

\* The combo was up and a placement without a clear brought it back to 0.
C4_Witness ==
    /\ state = "idle"
    /\ lastEvent.type = "DROP_BLOCK"
    /\ pre.combo >= 1
    /\ combo = 0
    /\ streak = 0

\* Some block still in the inventory fits at one of the 64 origins.
SomeBlockFits ==
    \E i \in 0 .. 2 :
        /\ inventory[i] # Null
        /\ \E r \in 0 .. 7 : \E c \in 0 .. 7 :
              Fits(grid, inventory[i].shape, Pos(r, c))

SlotsLeft == Cardinality({ i \in 0 .. 2 : inventory[i] # Null })

\* C6: on every entry into gameOver highScore becomes the larger of score and
\* the highScore held just before, and in gameOver highScore >= score.
C6_HighScoreOnGameOver ==
    [][ /\ (state # "gameOver" /\ state' = "gameOver") =>
              /\ highScore' = Max(score, highScore)
              /\ score' = score
        /\ state' = "gameOver" => highScore' >= score'
      ]_vars

\* The finished game beat the high score held before.
C6_Witness ==
    /\ state = "gameOver"
    /\ score > pre.highScore
    /\ highScore = score

\* C7: RESTART in gameOver leads to idle with an empty 8x8 grid, score 0,
\* combo 0, no drag, no pending clear, three fresh blocks generated at score
\* 0, and highScore the larger of the finished game's score and highScore.
C7_RestartAfterGameOver ==
    [][ RestartStep("gameOver") =>
          /\ state' = "idle"
          /\ AllEmpty(grid')
          /\ score' = 0
          /\ combo' = 0
          /\ currentDrag' = Null
          /\ linesToClear' = Null
          /\ FreshInventory
          /\ highScore' = Max(score, highScore)
      ]_vars

\* A finished game with points was restarted.
C7_Witness ==
    /\ state = "idle"
    /\ lastEvent.type = "RESTART"
    /\ pre.state = "gameOver"
    /\ pre.score > 0
    /\ score = 0
    /\ highScore = Max(pre.score, pre.highScore)

\* A RESTART delivered now changes the state or the context.
RestartChanges(Draws) ==
    ENABLED ( /\ RESTART(Draws)
              /\ <<state, grid, inventory, score, combo, highScore,
                   currentDrag, linesToClear>>'
                 # <<state, grid, inventory, score, combo, highScore,
                     currentDrag, linesToClear>> )

\* C8 as amended: in dragging and in clearing RESTART is not listed; delivered
\* there it leaves the state and the whole context unchanged.
C8_RestartUnlisted ==
    state \in { "dragging", "clearing" } => ~RestartChanges(LineRestartDraws)

\* The machine rests in clearing, where RESTART can be delivered.
C8_Witness ==
    /\ state = "clearing"
    /\ ENABLED RESTART(LineRestartDraws)
    /\ score > 0

\* C8 as stated: a RESTART delivered in idle, dragging or clearing leaves the
\* state and the whole context unchanged.
C8_AsStated ==
    state \in { "idle", "dragging", "clearing" } =>
        ~RestartChanges(LineRestartDraws)

\* C9: RESTART in idle leads to idle with an empty grid, score 0, combo 0 and
\* three fresh blocks, and highScore keeps the value it had.
C9_RestartInIdle ==
    [][ RestartStep("idle") =>
          /\ state' = "idle"
          /\ AllEmpty(grid')
          /\ score' = 0
          /\ combo' = 0
          /\ FreshInventory
          /\ highScore' = highScore
      ]_vars

\* A game whose score was above the high score was abandoned by RESTART.
C9_Witness ==
    /\ state = "idle"
    /\ lastEvent.type = "RESTART"
    /\ pre.state = "idle"
    /\ pre.score > pre.highScore
    /\ score = 0
    /\ highScore = pre.highScore

\* C10 as stated: LOAD_HIGH_SCORE(v) delivered in idle or in gameOver sets
\* highScore to v and changes neither the state nor any other context field.
C10_LoadSetsHighScore ==
    \A v \in LoadValues :
        state \in { "idle", "gameOver" } =>
            ENABLED ( /\ LOAD_HIGH_SCORE(v)
                      /\ highScore' = v
                      /\ UNCHANGED <<state, grid, inventory, score, combo,
                                     currentDrag, linesToClear>> )

\* A delivery of the event (the action A) now changes the state or the
\* context.
Changes(A) ==
    ENABLED ( /\ A
              /\ <<state, grid, inventory, score, combo, highScore,
                   currentDrag, linesToClear>>'
                 # <<state, grid, inventory, score, combo, highScore,
                     currentDrag, linesToClear>> )

\* C11: in clearing no delivery of DRAG_START, DRAG_UPDATE, DRAG_CANCEL,
\* DROP_BLOCK, RESTART or LOAD_HIGH_SCORE changes the state or the context,
\* and every delivery of CLEAR_COMPLETE leads to checkingGameOver with grid,
\* score and combo as they were.
C11_ClearingWaits ==
    state = "clearing" =>
        /\ \A i \in DragIndexes : ~Changes(DRAG_START(i))
        /\ \A u \in DragUpdates : ~Changes(DRAG_UPDATE(u.position, u.isValid))
        /\ ~Changes(DRAG_CANCEL)
        /\ \A p \in DropPositions : ~Changes(DROP_BLOCK(p))
        /\ ~Changes(RESTART(LineRestartDraws))
        /\ \A v \in LoadValues : ~Changes(LOAD_HIGH_SCORE(v))
        /\ ENABLED CLEAR_COMPLETE
        /\ ~ENABLED ( /\ CLEAR_COMPLETE
                      /\ ~ ( /\ state' = "checkingGameOver"
                             /\ UNCHANGED <<grid, score, combo>> ) )

\* The machine waits in clearing after a second clear in a row, a block
\* still in the inventory.
C11_Witness ==
    /\ state = "clearing"
    /\ combo = 2
    /\ SlotsLeft >= 1
    /\ ENABLED DRAG_CANCEL

\* C12: in idle, dragging and gameOver no delivery of CLEAR_COMPLETE changes
\* the state or the context.
C12_LateClearComplete ==
    state \in { "idle", "dragging", "gameOver" } => ~Changes(CLEAR_COMPLETE)

\* The game is over and CLEAR_COMPLETE can still be delivered.
C12_Witness ==
    /\ state = "gameOver"
    /\ score > 0
    /\ ENABLED CLEAR_COMPLETE

\* C13 as stated: linesToClear is present exactly from a committed placement
\* that completed a line until its CLEAR_COMPLETE is processed: while the
\* machine rests in clearing it holds a result with at least one line, and in
\* idle, dragging and gameOver it is null.
C13_PendingClearWhileClearing ==
    /\ state = "clearing" =>
          /\ linesToClear # Null
          /\ linesToClear.totalLines >= 1
    /\ state \in { "idle", "dragging", "gameOver" } => linesToClear = Null

\* C14: in every resting state currentDrag is non-null exactly in dragging,
\* and right after DRAG_START(i) was taken it is {blockIndex: i, position:
\* null, isValid: false}.
C14_DragOnlyWhileDragging ==
    AtRest =>
        /\ currentDrag # Null <=> state = "dragging"
        /\ (state = "dragging" /\ lastEvent.type = "DRAG_START") =>
              currentDrag = [ blockIndex |-> lastEvent.blockIndex,
                              position |-> Null, isValid |-> FALSE ]

\* A drag of slot 2 has just begun, mid-game.
C14_Witness ==
    /\ state = "dragging"
    /\ lastEvent = [type |-> "DRAG_START", blockIndex |-> 2]
    /\ currentDrag # Null
    /\ currentDrag.blockIndex = 2
    /\ score > 0

\* C15 as amended: when an accepted placement empties the last inventory slot
\* the inventory is refilled with three fresh blocks by an automatic
\* transition of the decision, at once when the placement completed no line
\* and after the CLEAR_COMPLETE awaited in clearing when it did; the machine
\* never comes to rest in idle, dragging or gameOver with all slots empty.
C15_RefillBeforeNextMove ==
    [][ /\ (state = "placing" /\ SlotsLeft = 0 /\ FullLines(grid) = 0) =>
              state' = "checkingGameOver"
        /\ (state = "checkingGameOver" /\ SlotsLeft = 0) =>
              /\ state' = "checkingGameOver"
              /\ FreshInventory
        /\ state' \in { "idle", "dragging", "gameOver" } =>
              \E i \in 0 .. 2 : inventory'[i] # Null
      ]_vars

\* The last block completed a line; after CLEAR_COMPLETE the machine rests in
\* idle with three blocks of the second generation.
C15_Witness ==
    /\ state = "idle"
    /\ lastEvent.type = "CLEAR_COMPLETE"
    /\ SlotsLeft = 3
    /\ \A i \in 0 .. 2 : inventory[i].id >= 3
    /\ score > 100

\* C15 as stated: the refill precedes every further external event,
\* CLEAR_COMPLETE included, so no resting state has all three slots empty.
C15_AsStated == AtRest => SlotsLeft >= 1

TransientStates == { "placing", "checkingGameOver" }

\* C16: placing and checkingGameOver are never resting places: in each of
\* them an automatic transition is enabled, placing leaves at once for
\* clearing or checkingGameOver, and checkingGameOver leaves for idle or
\* gameOver after at most one refill (a step that stays there finds the
\* inventory empty and leaves it full); every other state is a resting state.
C16_RunToCompletion ==
    /\ [](state \in TransientStates =>
            ENABLED (PlacingAlways \/ CheckingGameOverAlways(BlockDraws)))
    /\ [](state \in TransientStates \/ AtRest)
    /\ [][ /\ state = "placing" =>
                 state' \in { "clearing", "checkingGameOver" }
           /\ state = "checkingGameOver" =>
                 \/ state' \in { "idle", "gameOver" }
                 \/ /\ state' = "checkingGameOver"
                    /\ SlotsLeft = 0
                    /\ \A i \in 0 .. 2 : inventory'[i] # Null
         ]_vars

\* The decision has just refilled the inventory and is about to be taken
\* again.
C16_Witness ==
    /\ state = "checkingGameOver"
    /\ SlotsLeft = 3
    /\ \A i \in 0 .. 2 : inventory[i].id >= 3
    /\ lastEvent.type = "DROP_BLOCK"

\* C18: no delivery of DRAG_START, DRAG_UPDATE or DRAG_CANCEL, in any resting
\* state, changes grid, inventory, score, combo, highScore or linesToClear;
\* DRAG_UPDATE(pos, isValid) taken in dragging stays in dragging, keeps
\* currentDrag.blockIndex and sets position and isValid from the event;
\* DRAG_CANCEL taken in dragging leads to idle with currentDrag null.
C18_DragFrame ==
    /\ [](AtRest =>
            LET kept(A) ==
                    ~ENABLED ( /\ A
                               /\ <<grid, inventory, score, combo, highScore,
                                    linesToClear>>'
                                  # <<grid, inventory, score, combo,
                                      highScore, linesToClear>> )
            IN  /\ \A i \in DragIndexes : kept(DRAG_START(i))
                /\ \A u \in DragUpdates :
                      kept(DRAG_UPDATE(u.position, u.isValid))
                /\ kept(DRAG_CANCEL))
    /\ [][ (state = "dragging" /\ lastEvent'.type = "DRAG_UPDATE") =>
              /\ state' = "dragging"
              /\ currentDrag' = [ blockIndex |-> currentDrag.blockIndex,
                                  position |-> lastEvent'.position,
                                  isValid |-> lastEvent'.isValid ]
         ]_vars
    /\ [][ (state = "dragging" /\ lastEvent'.type = "DRAG_CANCEL") =>
              /\ state' = "idle"
              /\ currentDrag' = Null
         ]_vars

\* The drag of slot 1 was moved over (3,4), mid-game.
C18_Witness ==
    /\ state = "dragging"
    /\ lastEvent.type = "DRAG_UPDATE"
    /\ currentDrag = [blockIndex |-> 1, position |-> Pos(3, 4),
                      isValid |-> TRUE]
    /\ score > 0

\* Non-empty cells of a grid.
FilledCells(g) ==
    Cardinality({ rc \in (0 .. 7) \X (0 .. 7) : g[rc[1]][rc[2]] # NullCell })

\* C17: in a fresh game (score 0, so nothing placed yet), whatever the three
\* blocks of the initial inventory, once the drag of a block of slot 0, 1 or 2
\* is dropped at (0,0) the machine rests in idle with score equal to the
\* cells of that block, combo 0, that slot alone empty and the block's cells
\* on the grid, no line having been completed.
C17_FirstMove ==
    ( /\ AtRest
      /\ lastEvent = [type |-> "DROP_BLOCK", position |-> Pos(0, 0)]
      /\ pre.state = "dragging"
      /\ pre.score = 0
      /\ pre.dragged # Null ) =>
        /\ state = "idle"
        /\ score = OccupiedCount(pre.dragged.shape)
        /\ combo = 0
        /\ SlotsLeft = 2
        /\ \A i \in 0 .. 2 :
              inventory[i] # Null => inventory[i].id # pre.dragged.id
        /\ FilledCells(grid) = score
        /\ grid[0][0] # NullCell \/ ~pre.dragged.shape[1][1]
        /\ FullLines(grid) = 0
        /\ linesToClear = Null

\* An lShape2 of slot 2 was dropped at (0,0) as the first move.
C17_Witness ==
    /\ state = "idle"
    /\ lastEvent = [type |-> "DROP_BLOCK", position |-> Pos(0, 0)]
    /\ pre.dragged # Null
    /\ pre.dragged.shape = BLOCK_SHAPES.lShape2
    /\ pre.dragged.id = 2
    /\ inventory[2] = Null
    /\ score = 4
    /\ pre.score = 0

\* An occupied cell of the shape put at pos is off the grid or on a cell of g
\* that is not empty.
Blocked(g, shape, pos) ==
    \E i \in 1 .. Len(shape) : \E j \in 1 .. Len(shape[i]) :
        /\ shape[i][j]
        /\ \/ pos.row + i - 1 \notin 0 .. 7
           \/ pos.col + j - 1 \notin 0 .. 7
           \/ g[pos.row + i - 1][pos.col + j - 1] # NullCell

\* Some cell of g that is not empty is next to (sharing a side with) a cell the
\* shape put at pos covers.
Touches(g, shape, pos) ==
    \E r \in 0 .. 7, c \in 0 .. 7 :
        /\ g[r][c] # NullCell
        /\ \/ Covered(shape, pos, r - 1, c)
           \/ Covered(shape, pos, r + 1, c)
           \/ Covered(shape, pos, r, c - 1)
           \/ Covered(shape, pos, r, c + 1)

Returned(fn) == call # Null /\ call.fn = fn /\ Len(result) = 1

\* C19: for every grid, block and position, origins before and past the grid
\* included, canPlaceBlock returns false exactly when an occupied cell of the
\* shape, offset by the position, is outside [0,8)x[0,8) or on a grid cell that
\* is not empty; so it returns true for a shape that touches occupied cells
\* without overlapping them.
C19_CanPlaceBlock ==
    Returned("canPlaceBlock") =>
        /\ result[1] = FALSE <=> Blocked(call.grid, call.block.shape, call.position)
        /\ ( /\ Touches(call.grid, call.block.shape, call.position)
             /\ \A r \in 0 .. 7, c \in 0 .. 7 :
                   Covered(call.block.shape, call.position, r, c) =>
                       call.grid[r][c] = NullCell
             /\ \A i \in 1 .. Len(call.block.shape) :
                   \A j \in 1 .. Len(call.block.shape[i]) :
                       call.block.shape[i][j] =>
                           /\ call.position.row + i - 1 \in 0 .. 7
                           /\ call.position.col + j - 1 \in 0 .. 7 )
              => result[1] = TRUE

\* smallL1 in the L-shaped hole of the full grid: its false cell lies over an
\* occupied cell, its three cells touch occupied cells, and the call accepts.
C19_Witness ==
    /\ Returned("canPlaceBlock")
    /\ call.block.shape = BLOCK_SHAPES.smallL1
    /\ call.position = Pos(3, 3)
    /\ call.grid[3][4] # NullCell
    /\ Touches(call.grid, call.block.shape, call.position)
    /\ result = << TRUE >>

\* C20: a call placeBlock(G, B, P) with canPlaceBlock(G, B, P) true returns a
\* grid in which exactly the cells under the occupied cells of B.shape put at P
\* hold B.color and every other cell is the cell of G (the false cells of the
\* matrix are not written); and no call changes its arguments, G included.
C20_PlaceBlock ==
    /\ [] ( ( /\ Returned("placeBlock")
              /\ canPlaceBlock(call.grid, call.block, call.position) ) =>
                 result[1] =
                     [r \in 0 .. 7 |-> [c \in 0 .. 7 |->
                         IF Covered(call.block.shape, call.position, r, c)
                         THEN call.block.color
                         ELSE call.grid[r][c]]] )
    /\ [][call # Null => call' = call]_vars

\* smallL1 placed in the L-shaped hole: three cells are written, the cell under
\* the false cell of the matrix keeps the color it had.
C20_Witness ==
    /\ Returned("placeBlock")
    /\ call.block.shape = BLOCK_SHAPES.smallL1
    /\ call.position = Pos(3, 3)
    /\ call.grid[3][4] = "red"
    /\ result[1][3][4] = "red"
    /\ call.grid[3][3] = NullCell
    /\ result[1][3][3] = "blue"
    /\ result[1][4][3] = "blue"
    /\ result[1][4][4] = "blue"

\* C21: for every grid, checkLineClears returns as rows exactly the indices of
\* the rows whose 8 cells are all occupied, as cols exactly the indices of the
\* columns whose 8 cells are all occupied, each once, and as totalLines the
\* number of rows plus the number of columns; a row and a column that cross
\* both count, and the empty grid gives 0.
C21_CheckLineClears ==
    Returned("checkLineClears") =>
        /\ SeqRange(result[1].rows) = FullRows(call.grid)
        /\ Len(result[1].rows) = Cardinality(FullRows(call.grid))
        /\ SeqRange(result[1].cols) = FullCols(call.grid)
        /\ Len(result[1].cols) = Cardinality(FullCols(call.grid))
        /\ result[1].totalLines =
              Cardinality(FullRows(call.grid)) + Cardinality(FullCols(call.grid))
        /\ AllEmpty(call.grid) => result[1].totalLines = 0

\* The full grid: 8 rows and 8 columns, every cell shared, 16 lines.
C21_Witness ==
    /\ Returned("checkLineClears")
    /\ \A r \in 0 .. 7, c \in 0 .. 7 : call.grid[r][c] # NullCell
    /\ result[1].rows = << 0, 1, 2, 3, 4, 5, 6, 7 >>
    /\ result[1].cols = << 0, 1, 2, 3, 4, 5, 6, 7 >>
    /\ result[1].totalLines = 16

\* C22: for every grid and line clear result, clearLines returns a grid in
\* which a cell is empty if its row or its column is listed and is the cell of
\* the input otherwise; no call changes its arguments, the input grid included;
\* and when the result passed is the one checkLineClears gives for the grid,
\* the grid returned has no complete row and no complete column.
C22_ClearLines ==
    /\ [] ( Returned("clearLines") =>
              /\ result[1] =
                    [r \in 0 .. 7 |-> [c \in 0 .. 7 |->
                        IF \/ \E k \in 1 .. Len(call.lineClear.rows) :
                                 call.lineClear.rows[k] = r
                           \/ \E k \in 1 .. Len(call.lineClear.cols) :
                                 call.lineClear.cols[k] = c
                        THEN NullCell
                        ELSE call.grid[r][c]]]
              /\ ( /\ SeqRange(call.lineClear.rows) = FullRows(call.grid)
                   /\ SeqRange(call.lineClear.cols) = FullCols(call.grid) ) =>
                      FullLines(result[1]) = 0 )
    /\ [][call # Null /\ call.fn = "clearLines" => call' = call]_vars

\* Row 3 and column 5 complete, two cells elsewhere, cleared by their own
\* result: the lines are empty, the two cells are kept, no line is complete.
C22_Witness ==
    /\ Returned("clearLines")
    /\ call.lineClear = [rows |-> << 3 >>, cols |-> << 5 >>, totalLines |-> 2]
    /\ FullRows(call.grid) = { 3 }
    /\ FullCols(call.grid) = { 5 }
    /\ call.grid[1][1] = "red"
    /\ result[1][1][1] = "red"
    /\ result[1][4][2] = "red"
    /\ \A k \in 0 .. 7 : result[1][3][k] = NullCell /\ result[1][k][5] = NullCell
    /\ FullLines(result[1]) = 0

\* The cells of a full grid that clearLines resets for the result.
ResetCells(lineClear) ==
    { rc \in (0 .. 7) \X (0 .. 7) :
        clearLines(GridWith((0 .. 7) \X (0 .. 7), "red"), lineClear)[rc[1]][rc[2]]
            = NullCell }

\* C23: getCellsToClear returns every cell of a listed row or a listed column
\* exactly once, a cell where a row and a column cross included; for r listed
\* rows and c listed columns these are 8*(r+c) - r*c cells, and they are the
\* cells clearLines resets.
C23_GetCellsToClear ==
    Returned("getCellsToClear") =>
        LET cells == result[1]
            rows == call.lineClear.rows
            cols == call.lineClear.cols
        IN  /\ \A i, j \in 1 .. Len(cells) : cells[i] = cells[j] => i = j
            /\ { <<cells[i].row, cells[i].col>> : i \in 1 .. Len(cells) } =
                  { rc \in (0 .. 7) \X (0 .. 7) :
                      \/ \E k \in 1 .. Len(rows) : rows[k] = rc[1]
                      \/ \E k \in 1 .. Len(cols) : cols[k] = rc[2] }
            /\ Len(cells) = 8 * (Len(rows) + Len(cols)) - Len(rows) * Len(cols)
            /\ { <<cells[i].row, cells[i].col>> : i \in 1 .. Len(cells) } =
                  ResetCells(call.lineClear)

\* Rows 0 and 3 with column 5: 24 - 2 = 22 cells, the crossings (0,5) and
\* (3,5) once each.
C23_Witness ==
    /\ Returned("getCellsToClear")
    /\ call.lineClear.rows = << 0, 3 >>
    /\ call.lineClear.cols = << 5 >>
    /\ Len(result[1]) = 22
    /\ Cardinality({ i \in 1 .. Len(result[1]) : result[1][i] = Pos(3, 5) }) = 1

\* The grid g with the shape put at pos in color.
Placed(g, shape, pos, color) ==
    [r \in 0 .. 7 |-> [c \in 0 .. 7 |->
        IF Covered(shape, pos, r, c) THEN color ELSE g[r][c]]]

\* The cells listed in a sequence of positions.
CellSet(cells) == { <<cells[i].row, cells[i].col>> : i \in 1 .. Len(cells) }

\* C30: for every grid, block and position that canPlaceBlock accepts,
\* predictLineClearsAfterPlacement returns exactly the cells the machine would
\* clear if the block were dropped there: getCellsToClear of checkLineClears
\* of placeBlock, which are the cells of the rows and columns complete once
\* the block is on the grid and the cells that clearLines then empties, none
\* when no line is complete; and the call leaves the grid as it was.
C30_PredictMatchesPipeline ==
    /\ [] ( ( /\ Returned("predictLineClearsAfterPlacement")
              /\ canPlaceBlock(call.grid, call.block, call.position) ) =>
                LET after == Placed(call.grid, call.block.shape, call.position,
                                    call.block.color)
                    newGrid == placeBlock(call.grid, call.block, call.position)
                    lineClear == checkLineClears(newGrid)
                IN  /\ result[1] = getCellsToClear(lineClear)
                    /\ CellSet(result[1]) =
                          { rc \in (0 .. 7) \X (0 .. 7) :
                              rc[1] \in FullRows(after) \/ rc[2] \in FullCols(after) }
                    /\ CellSet(result[1]) =
                          { rc \in (0 .. 7) \X (0 .. 7) :
                              clearLines(newGrid, lineClear)[rc[1]][rc[2]]
                                  # newGrid[rc[1]][rc[2]] }
                    /\ Len(result[1]) = Cardinality(CellSet(result[1]))
                    /\ FullLines(after) = 0 => result[1] = << >> )
    /\ [][call # Null /\ call.fn = "predictLineClearsAfterPlacement"
            => call' = call]_vars

\* smallL1 in the L-shaped hole of a grid with no complete line completes
\* rows 3 and 4 and columns 3 and 4:
\* 28 cells are predicted, among them (3,4), which the block does not cover.
C30_Witness ==
    /\ Returned("predictLineClearsAfterPlacement")
    /\ call.block.shape = BLOCK_SHAPES.smallL1
    /\ call.position = Pos(3, 3)
    /\ call.grid[3][3] = NullCell
    /\ FullLines(call.grid) = 0
    /\ Len(result[1]) = 28
    /\ <<3, 4>> \in CellSet(result[1])
    /\ <<0, 0>> \notin CellSet(result[1])

\* Some block of inv fits on g at some origin of the grid.
SomeFits(g, inv) ==
    \E i \in 0 .. 2 :
        /\ inv[i] # Null
        /\ \E r \in 0 .. 7, c \in 0 .. 7 : Fits(g, inv[i].shape, Pos(r, c))

EmptySlots(inv) == { i \in 0 .. 2 : inv[i] = Null }

\* C24: canPlaceAnyBlock(grid, inventory) is true exactly when some slot that
\* is not empty holds a block that canPlaceBlock accepts at some origin of
\* [0,8)x[0,8); empty slots are skipped, and with every slot empty it is false.
C24_CanPlaceAnyBlock ==
    Returned("canPlaceAnyBlock") =>
        /\ result[1] = SomeFits(call.grid, call.inventory)
        /\ result[1] =
              \E i \in 0 .. 2 :
                  /\ call.inventory[i] # Null
                  /\ \E r \in 0 .. 7, c \in 0 .. 7 :
                        canPlaceBlock(call.grid, call.inventory[i], Pos(r, c))
        /\ EmptySlots(call.inventory) = 0 .. 2 => result[1] = FALSE

\* Two empty slots and a square2 that fits nowhere come before the single
\* that fits in the one free cell.
C24_Witness ==
    /\ Returned("canPlaceAnyBlock")
    /\ call.inventory[0] = Null
    /\ call.inventory[1] # Null
    /\ call.inventory[1].shape = BLOCK_SHAPES.square2
    /\ call.inventory[2] # Null
    /\ call.inventory[2].shape = BLOCK_SHAPES.single
    /\ call.grid[0][0] = NullCell
    /\ \A r \in 0 .. 7, c \in 0 .. 7 :
          <<r, c>> # <<0, 0>> => call.grid[r][c] # NullCell
    /\ result = << TRUE >>

\* C25 (amended): checkGameOver(grid, inventory) returns false when every
\* inventory slot is empty; when some slot holds a block, whether or not other
\* slots are empty, it returns true exactly when canPlaceAnyBlock is false.
C25_CheckGameOver ==
    Returned("checkGameOver") =>
        IF EmptySlots(call.inventory) = 0 .. 2
        THEN result[1] = FALSE
        ELSE /\ result[1] = ~SomeFits(call.grid, call.inventory)
             /\ result[1] = ~canPlaceAnyBlock(call.grid, call.inventory)

\* Two empty slots and a square2 on a grid whose only free cell is (0,0): the
\* game is over.
C25_Witness ==
    /\ Returned("checkGameOver")
    /\ call.inventory[0] = Null
    /\ call.inventory[1] # Null
    /\ call.inventory[1].shape = BLOCK_SHAPES.square2
    /\ call.inventory[2] = Null
    /\ call.grid[0][0] = NullCell
    /\ ~SomeFits(call.grid, call.inventory)
    /\ result = << TRUE >>

\* C25 as stated: checkGameOver returns false whenever any inventory slot is
\* empty, and with no slot empty returns true exactly when canPlaceAnyBlock is
\* false.
C25_AsStated ==
    Returned("checkGameOver") =>
        IF EmptySlots(call.inventory) # {}
        THEN result[1] = FALSE
        ELSE result[1] = ~canPlaceAnyBlock(call.grid, call.inventory)

\* 2 * min(1 + (c - 1) / 2, 8): the multiplier of combo c, counted in halves.
TwiceMultiplier(c) == IF c + 1 < 16 THEN c + 1 ELSE 16

\* C26: for totalLines n >= 0 and comboCount c >= 0, calculateScore returns
\* basePoints 0 for n = 0, 100, 300, 600, 1000 for n = 1..4 and
\* 1000 + (n - 4) * 300 for n > 4; multiplier 1 for c = 0 and
\* getComboMultiplier(c) for c > 0; and points = floor(basePoints * multiplier),
\* where the product is an integer, so nothing is cut off.  Multipliers are
\* counted in halves (2 is 1.0x).
C26_CalculateScore ==
    Returned("calculateScore") =>
        LET n == call.lineClear.totalLines
            c == call.comboCount
            twice == IF c = 0 THEN 2 ELSE TwiceMultiplier(c)
        IN  /\ result[1].basePoints =
                  CASE n = 0 -> 0
                    [] n = 1 -> 100
                    [] n = 2 -> 300
                    [] n = 3 -> 600
                    [] n = 4 -> 1000
                    [] n > 4 -> 1000 + (n - 4) * 300
            /\ result[1].multiplier = twice
            /\ c > 0 => result[1].multiplier = getComboMultiplier(c)
            /\ 2 * result[1].points = result[1].basePoints * twice
            /\ (n = 1 /\ c = 0) => result[1].points = 100
            /\ (n = 2 /\ c = 2) => result[1].points = 450

\* Two lines at combo 2: 300 x 1.5 = 450.
C26_Witness ==
    /\ Returned("calculateScore")
    /\ call.lineClear.totalLines = 2
    /\ call.comboCount = 2
    /\ result[1] = [points |-> 450, basePoints |-> 300, multiplier |-> 3]

\* C27: for comboCount c >= 1, getComboMultiplier(c) = min(1 + (c - 1) / 2, 8):
\* 1, 1.5, 2 for c = 1, 2, 3, never below the value of a smaller c, 8 from
\* c = 15 on and below 8 before.  Multipliers are counted in halves.
C27_ComboMultiplier ==
    ( Returned("getComboMultiplier") /\ call.comboCount >= 1 ) =>
        LET c == call.comboCount
        IN  /\ result[1] = TwiceMultiplier(c)
            /\ c = 1 => result[1] = 2
            /\ c = 2 => result[1] = 3
            /\ c = 3 => result[1] = 4
            /\ \A b \in 1 .. c : getComboMultiplier(b) <= result[1]
            /\ result[1] <= 16
            /\ result[1] = 16 <=> c >= 15

\* A combo past 15: the multiplier stays at 8.
C27_Witness ==
    /\ Returned("getComboMultiplier")
    /\ call.comboCount = 20
    /\ result = << 16 >>

\* The tiers of the catalog, by shape.
SimpleTier ==
    { BLOCK_SHAPES[n] : n \in { "single", "line2H", "line2V", "square2",
                                "smallL1", "smallL2", "smallL3", "smallL4" } }
FirstFourMedium ==
    { BLOCK_SHAPES[n] : n \in { "line3H", "line3V", "lShape1", "lShape2" } }
MediumTier ==
    FirstFourMedium \cup
    { BLOCK_SHAPES[n] : n \in { "lShape3", "lShape4", "lShapeR1", "lShapeR2",
                                "lShapeR3", "lShapeR4", "tShape1", "tShape2",
                                "tShape3", "tShape4" } }
ComplexTier ==
    { BLOCK_SHAPES[n] : n \in { "line4H", "line4V", "line5H", "line5V",
                                "square3", "zShape1", "zShape2", "sShape1",
                                "sShape2" } }
Catalog == { BLOCK_SHAPES[n] : n \in DOMAIN BLOCK_SHAPES }

\* The shapes of the band of score s.
BandShapes(s) ==
    IF s < 500 THEN SimpleTier \cup FirstFourMedium
    ELSE IF s < 1500 THEN SimpleTier \cup MediumTier
    ELSE IF s < 3000 THEN MediumTier \cup ComplexTier
    ELSE Catalog

\* C28: the shapes generateRandomBlock(score) can return are those of the band
\* of the score: below 500 the simple shapes and the first four medium shapes,
\* never a complex one; from 500 below 1500 the simple and medium shapes; from
\* 1500 below 3000 the medium and complex shapes, never a simple one; from
\* 3000 on any shape of the catalog.  Every shape of the band is returned for
\* some draw, and the block returned always has a catalog shape with an
\* occupied cell and one of the 6 colors.
C28_ShapeBands ==
    Returned("generateRandomBlock") =>
        /\ result[1].shape \in BandShapes(call.score)
        /\ call.score < 500 => result[1].shape \notin ComplexTier
        /\ (call.score >= 1500 /\ call.score < 3000) =>
              result[1].shape \notin SimpleTier
        /\ result[1].shape \in Catalog
        /\ OccupiedCount(result[1].shape) >= 1
        /\ result[1].color \in
              { "red", "blue", "green", "yellow", "purple", "orange" }
        /\ call.draw = <<0, 0>> =>
              { generateRandomBlock(call.score, <<u, 0>>, 0).shape :
                  u \in 0 .. 999 } = BandShapes(call.score)

\* At score 3000 a draw gives the single, a simple shape, in orange.
C28_Witness ==
    /\ Returned("generateRandomBlock")
    /\ call.score = 3000
    /\ result[1].shape = BLOCK_SHAPES.single
    /\ result[1].color = "orange"

\* The ids of the blocks in an inventory.
IdsIn(inv) == { inv[i].id : i \in { j \in 0 .. 2 : inv[j] # Null } }

\* C29: block ids are unique across the whole run.  The blocks in the
\* inventory have pairwise different ids, all generated so far (below the
\* counter); and whenever a step (initial generation aside: a refill or a
\* RESTART) brings new blocks into the inventory, their ids are at or above
\* the counter as it was, hence different from the id of every block generated
\* before, placed ones included.
C29_UniqueIds ==
    /\ [] ( /\ \A i, j \in 0 .. 2 :
                  ( inventory[i] # Null /\ inventory[j] # Null /\ i # j ) =>
                      inventory[i].id # inventory[j].id
            /\ \A id \in IdsIn(inventory) : id < blockIdCounter )
    /\ [][ /\ blockIdCounter' >= blockIdCounter
           /\ \A id \in IdsIn(inventory') \ IdsIn(inventory) :
                 id >= blockIdCounter /\ id < blockIdCounter'
           /\ \A i \in 0 .. 2 :
                 ( inventory'[i] # Null /\ inventory'[i].id \in IdsIn(inventory) ) =>
                     inventory'[i] = inventory[i] ]_vars

\* A game restarted after it ended, a refill having happened before: the
\* third generation of blocks has the ids 6, 7 and 8.
C29_Witness ==
    /\ lastEvent.type = "RESTART"
    /\ pre.state = "gameOver"
    /\ state = "idle"
    /\ IdsIn(inventory) = { 6, 7, 8 }
    /\ blockIdCounter = 9

\* C31: in every reachable resting state (idle, dragging, clearing, gameOver)
\* the grid has no fully occupied row and no fully occupied column: a
\* placement that completes lines is followed at once by the entry action of
\* clearing, which empties them before the machine rests.
C31_NoFullLineAtRest == AtRest => FullLines(grid) = 0

\* The machine rests in clearing after the single dropped at (0,0) completed
\* row 0 and column 0 together (1 point for the cell, 300 for the two lines).
C31_Witness ==
    /\ state = "clearing"
    /\ lastEvent = [type |-> "DROP_BLOCK", position |-> Pos(0, 0)]
    /\ score = pre.score + 1 + LinePoints(2, 1)
    /\ FullLines(grid) = 0

\* C32: whenever the machine rests in idle or dragging the inventory has at
\* least one block and some block of it fits somewhere on the grid; whenever
\* it rests in gameOver the inventory has at least one block and no block of
\* it fits anywhere.
C32_MoveLeftUnlessOver ==
    /\ state \in { "idle", "dragging" } => SlotsLeft >= 1 /\ SomeBlockFits
    /\ state = "gameOver" => SlotsLeft >= 1 /\ ~SomeBlockFits

\* The game ended on the drop of a single at (1,1): what is left of the
\* inventory finds no two adjacent empty cells.
C32_Witness ==
    /\ state = "gameOver"
    /\ lastEvent = [type |-> "DROP_BLOCK", position |-> Pos(1, 1)]
    /\ SlotsLeft >= 1
    /\ \A i \in 0 .. 2 :
          inventory[i] # Null => OccupiedCount(inventory[i].shape) = 2
    /\ ~SomeBlockFits

\* C33: after an accepted placement every row and every column listed in the
\* pending clear contains a cell of the block just placed; so the lines of one
\* placement are at most the rows plus the columns of its shape, which is at
\* most 6 for every shape of the catalog, and the base points of one clear
\* (the points awarded, the combo multiplier taken out) never exceed 1600.
C33_ClearedLinesTouchBlock ==
    /\ \A k \in DOMAIN BLOCK_SHAPES :
          Len(BLOCK_SHAPES[k]) + Len(BLOCK_SHAPES[k][1]) <= 6
    /\ (state = "placing" /\ linesToClear # Null) =>
          LET shape == pre.dragged.shape
              pos == lastEvent.position
          IN  /\ \A k \in 1 .. Len(linesToClear.rows) :
                    \E c \in 0 .. 7 :
                        Covered(shape, pos, linesToClear.rows[k], c)
              /\ \A k \in 1 .. Len(linesToClear.cols) :
                    \E r \in 0 .. 7 :
                        Covered(shape, pos, r, linesToClear.cols[k])
              /\ linesToClear.totalLines <= Len(shape) + Len(shape[1])
              /\ LinePoints(linesToClear.totalLines, 1) <= 1600
    /\ (state = "clearing" /\ lastEvent.type = "DROP_BLOCK") =>
          2 * (score - pre.score - OccupiedCount(pre.dragged.shape))
              <= 1600 * (IF combo + 1 < 16 THEN combo + 1 ELSE 16)

\* A single dropped at (0,0) has completed row 0 and column 0: two lines for
\* a shape of one row and one column.
C33_Witness ==
    /\ state = "placing"
    /\ linesToClear # Null
    /\ linesToClear.rows = << 0 >>
    /\ linesToClear.cols = << 0 >>
    /\ Len(pre.dragged.shape) + Len(pre.dragged.shape[1]) = 2
    /\ lastEvent.position = Pos(0, 0)

\* The grid g with the cells of shape put at pos emptied.
Lifted(g, shape, pos) ==
    [row \in 0 .. 7 |->
        [col \in 0 .. 7 |->
            IF Covered(shape, pos, row, col) THEN NullCell ELSE g[row][col]]]

\* The state of the legacy reducer that has the machine's grid, inventory,
\* score, high score and combo.
LegacyNow ==
    [ grid |-> grid, inventory |-> inventory, score |-> score,
      highScore |-> highScore, combo |-> combo, isGameOver |-> FALSE ]

\* The same for the context in which the drop just accepted arrived, seen
\* from placing: the block back in slot i and off the grid, score and combo as
\* recorded on arrival.
LegacyBefore(i) ==
    [ grid |-> Lifted(grid, pre.dragged.shape, lastEvent.position),
      inventory |-> [inventory EXCEPT ![i] = pre.dragged],
      score |-> pre.score, highScore |-> highScore, combo |-> pre.combo,
      isGameOver |-> FALSE ]

\* C34: the machine and the legacy reducer score alike.  From the same grid,
\* inventory, score and combo: a drop of slot i at pos that the machine
\* rejects is one the reducer's PLACE_BLOCK(i, pos) returns its state for, and
\* neither changes grid, inventory, score or combo; a drop the machine accepts
\* is one the reducer accepts, and once the machine has gone through placing
\* (into clearing when lines were completed, CLEAR_COMPLETE changing nothing
\* more) its grid, inventory, score and combo are those of the reducer's
\* result, a clear being scored by both with the combo after its increment.
C34_MachineMatchesReducer ==
    [][ /\ (DropStep /\ state' # "placing") =>
              /\ PLACE_BLOCK(LegacyNow, currentDrag.blockIndex,
                             lastEvent'.position) = LegacyNow
              /\ UNCHANGED <<grid, inventory, score, combo>>
        /\ (DropStep /\ state' = "placing") =>
              LET i == currentDrag.blockIndex
                  B == slot(inventory, i)
              IN  /\ PLACE_BLOCK(LegacyNow, i, lastEvent'.position) # LegacyNow
                  /\ pre'.dragged = B
                  /\ pre'.score = score
                  /\ pre'.combo = combo
                  /\ inventory'[i] = Null
                  /\ [inventory' EXCEPT ![i] = B] = inventory
                  /\ Lifted(grid', B.shape, lastEvent'.position) = grid
        /\ state = "placing" =>
              \A i \in EmptySlots(inventory) :
                  LET R == PLACE_BLOCK(LegacyBefore(i), i, lastEvent.position)
                      n == FullLines(grid)
                  IN  /\ grid' = R.grid
                      /\ inventory' = R.inventory
                      /\ score' = R.score
                      /\ combo' = R.combo
                      /\ n > 0 =>
                            /\ combo' = pre.combo + 1
                            /\ score' = pre.score
                                        + OccupiedCount(pre.dragged.shape)
                                        + LinePoints(n, pre.combo + 1)
        /\ (state = "clearing" /\ lastEvent'.type = "CLEAR_COMPLETE") =>
              UNCHANGED <<grid, inventory, score, combo>>
      ]_vars

\* The machine rests in clearing after a second clear in a row, scored at
\* combo 2 (150 points for the row) on top of the cells of the block.
C34_Witness ==
    /\ state = "clearing"
    /\ lastEvent.type = "DROP_BLOCK"
    /\ pre.combo = 1
    /\ combo = 2
    /\ score = pre.score + OccupiedCount(pre.dragged.shape) + 150

\* The state and the context as one value.
Now ==
    [ state |-> state, grid |-> grid, inventory |-> inventory,
      score |-> score, combo |-> combo, highScore |-> highScore,
      currentDrag |-> currentDrag, linesToClear |-> linesToClear ]

\* What a DROP_BLOCK(pos) delivered in dragging leads to, told from the grid,
\* the block of the dragged slot and pos alone: the position and the isValid
\* flag of the drag are not looked at.
DropOutcome(pos) ==
    LET idx == currentDrag.blockIndex
        B == slot(inventory, idx)
    IN  IF B # Null /\ Fits(grid, B.shape, pos)
        THEN LET G == Placed(grid, B.shape, pos, B.color)
             IN  [ state |-> "placing", grid |-> G,
                   inventory |-> [inventory EXCEPT ![idx] = Null],
                   score |-> score + OccupiedCount(B.shape),
                   combo |-> combo, highScore |-> highScore,
                   currentDrag |-> Null,
                   linesToClear |-> IF FullLines(G) > 0
                                    THEN checkLineClears(G) ELSE Null ]
        ELSE [ state |-> "idle", grid |-> grid, inventory |-> inventory,
               score |-> score, combo |-> combo, highScore |-> highScore,
               currentDrag |-> Null, linesToClear |-> linesToClear ]

\* C35: whether a DROP_BLOCK(pos) is accepted, and the state and context it
\* leads to, depend only on the grid, the block in the slot named by the
\* DRAG_START of the drag and pos.  A DRAG_UPDATE, whatever its position and
\* isValid flag, changes for no pos what a drop there will lead to; and every
\* drop leads to exactly that.  Two runs that differ only in their DRAG_UPDATE
\* events are therefore in the same state and context after the same drop.
C35_DropIgnoresDragUpdates ==
    /\ [][ (state = "dragging" /\ lastEvent'.type = "DRAG_UPDATE") =>
              /\ state' = "dragging"
              /\ \A p \in LatePositions : DropOutcome(p)' = DropOutcome(p)
         ]_vars
    /\ [][ DropStep => Now' = DropOutcome(lastEvent'.position) ]_vars

\* The drag is over a cell reported as invalid, and a drop at (0,0) would be
\* accepted all the same.
C35_Witness ==
    /\ state = "dragging"
    /\ lastEvent.type = "DRAG_UPDATE"
    /\ currentDrag.position = Pos(0, 1)
    /\ ~currentDrag.isValid
    /\ ENABLED ( DROP_BLOCK(Pos(0, 0)) /\ state' = "placing" )

\* C36: however the gesture events interleave with CLEAR_COMPLETE, a
\* DROP_BLOCK changes the grid only when it is delivered in dragging, and the
\* machine is in dragging only from a DRAG_START taken in idle until the next
\* DRAG_CANCEL or DROP_BLOCK.  A DRAG_START delivered in clearing or gameOver
\* changes nothing, so the DROP_BLOCK that follows it, be it after
\* CLEAR_COMPLETE has brought the machine back to idle, finds no drag and
\* places nothing.
C36_DropNeedsAcceptedDrag ==
    /\ [] ( /\ (AtRest /\ state # "dragging") =>
                  \A p \in LatePositions : ~Changes(DROP_BLOCK(p))
            /\ state \in { "clearing", "gameOver" } =>
                  \A i \in DragIndexes : ~Changes(DRAG_START(i)) )
    /\ [][ /\ (state' = "dragging" /\ state # "dragging") =>
                 state = "idle" /\ lastEvent'.type = "DRAG_START"
           /\ ( /\ state = "dragging"
                /\ lastEvent'.type \in { "DRAG_CANCEL", "DROP_BLOCK" } ) =>
                 state' # "dragging"
           /\ (AtRest /\ lastEvent'.type = "DROP_BLOCK" /\ grid' # grid) =>
                 state = "dragging"
         ]_vars

\* CLEAR_COMPLETE has brought the machine back to idle; a block of the
\* inventory would fit at (0,4), where a DROP_BLOCK can be delivered, and no
\* drag is in progress.
C36_Witness ==
    /\ state = "idle"
    /\ lastEvent.type = "CLEAR_COMPLETE"
    /\ currentDrag = Null
    /\ \E i \in 0 .. 2 :
          inventory[i] # Null /\ Fits(grid, inventory[i].shape, Pos(0, 4))
    /\ ENABLED DROP_BLOCK(Pos(0, 4))

\* C37: the score is a non-negative integer; only a RESTART the machine takes
\* lowers it, to 0; every accepted placement raises it; DRAG_START,
\* DRAG_UPDATE, DRAG_CANCEL, a rejected drop, CLEAR_COMPLETE and
\* LOAD_HIGH_SCORE leave it as it is.
C37_ScoreMonotone ==
    /\ [] (score \in Nat)
    /\ [][ /\ (AtRest /\ lastEvent'.type = "RESTART") => score' = 0
           /\ ~(AtRest /\ lastEvent'.type = "RESTART") => score' >= score
           /\ (DropStep /\ state' = "placing") => score' > score
           /\ (DropStep /\ state' # "placing") => score' = score
           /\ ( /\ AtRest
                /\ lastEvent'.type \in { "DRAG_START", "DRAG_UPDATE",
                                         "DRAG_CANCEL", "CLEAR_COMPLETE",
                                         "LOAD_HIGH_SCORE" } ) =>
                 score' = score
         ]_vars

\* A game that had gone beyond the score it began the run with ended, and the
\* RESTART taken in gameOver has set the score back to 0.
C37_Witness ==
    /\ state = "idle"
    /\ lastEvent.type = "RESTART"
    /\ pre.state = "gameOver"
    /\ pre.score > LateScore
    /\ score = 0

\* C38: across every step other than a LOAD_HIGH_SCORE the machine takes,
\* highScore keeps its value or rises: the game ending sets it to the larger
\* of score and highScore, RESTART keeps it.  A LOAD_HIGH_SCORE(v) the machine
\* takes sets highScore to v whatever it was, a lower v included.
C38_HighScoreOnlyLoadLowers ==
    [][ /\ ~(AtRest /\ lastEvent'.type = "LOAD_HIGH_SCORE") =>
              highScore' >= highScore
        /\ (state = "idle" /\ lastEvent'.type = "LOAD_HIGH_SCORE") =>
              highScore' = lastEvent'.highScore
        /\ (state = "checkingGameOver" /\ state' = "gameOver") =>
              highScore' = Max(score, highScore)
        /\ (AtRest /\ lastEvent'.type = "RESTART") => highScore' = highScore
      ]_vars

\* The high score a finished game had set was overwritten, after the restart,
\* by a loaded value of 7.
C38_Witness ==
    /\ state = "idle"
    /\ lastEvent = [type |-> "LOAD_HIGH_SCORE", highScore |-> 7]
    /\ pre.highScore > LateScore
    /\ highScore = 7

\* C39: the inventory always has exactly the slots 0, 1, 2.  A block in a
\* slot stays there unchanged until an accepted DROP_BLOCK places it (the slot
\* of the drag becomes empty) or a RESTART is taken.  An empty slot is filled
\* only by a RESTART or by the refill, which happens only when all three
\* slots are empty, fills all three, and generates its blocks with the score
\* of that moment: the points of the placement and of its clear are in it.
C39_InventoryFrame ==
    /\ [] (DOMAIN inventory = 0 .. 2)
    /\ [][ LET restart == AtRest /\ lastEvent'.type = "RESTART"
               refill == state = "checkingGameOver" /\ SlotsLeft = 0
           IN  /\ \A i \in 0 .. 2 :
                     (inventory[i] # Null /\ inventory'[i] # inventory[i]) =>
                         \/ restart
                         \/ /\ DropStep
                            /\ state' = "placing"
                            /\ i = currentDrag.blockIndex
                            /\ inventory'[i] = Null
               /\ \A i \in 0 .. 2 :
                     (inventory[i] = Null /\ inventory'[i] # Null) =>
                         restart \/ refill
               /\ refill =>
                     /\ score' = score
                     /\ \A i \in 0 .. 2 :
                           \E d \in LateRefillDraws :
                               inventory'[i] =
                                   generateRandomBlock(score, d,
                                                       blockIdCounter + i)
         ]_vars

\* The third block of the inventory completed row 0 and column 0, which took
\* the score from below 500 to above it; the refill after CLEAR_COMPLETE
\* brought a shape that is not in the pool below 500.
C39_Witness ==
    /\ state = "idle"
    /\ lastEvent.type = "CLEAR_COMPLETE"
    /\ score >= 500
    /\ score < LateScore + 3 + 300 + 1
    /\ \A i \in 0 .. 2 :
          /\ inventory[i] # Null
          /\ inventory[i].id >= LatePlaced + 3
          /\ inventory[i].shape \notin BandShapes(0)

\* C40: every turn completes.  Once a DROP_BLOCK is accepted (the machine is
\* in placing), and given that CLEAR_COMPLETE is delivered whenever the
\* machine waits in clearing, the machine comes to rest in idle or in
\* gameOver.  A RESTART taken in gameOver leads to idle and can be taken
\* there (while the run may still generate blocks), so no state is a dead
\* end.
C40_TurnCompletes ==
    /\ (state = "placing") ~> (state \in { "idle", "gameOver" })
    /\ (state = "clearing") ~> (state \in { "idle", "gameOver" })
    /\ [][ (state = "gameOver" /\ lastEvent'.type = "RESTART") =>
              state' = "idle" ]_vars
    /\ [] ( (state = "gameOver" /\ CanGenerate(MaxBlockIdsLate)) =>
              ENABLED ( RESTART(LateRestartDraws) /\ state' = "idle" ) )

\* A turn that went through clearing has come to rest in gameOver: the line2H
\* left in the inventory does not fit the grid the clear left behind.
C40_Witness ==
    /\ state = "gameOver"
    /\ lastEvent.type = "CLEAR_COMPLETE"
    /\ pre.state = "clearing"
    /\ ENABLED RESTART(LateRestartDraws)

\* inventory' holds three blocks generated by this step with the score s: new
\* ids, and shapes of the band of s.
RefilledAt(s) ==
    /\ DOMAIN inventory' = 0 .. 2
    /\ \A i \in 0 .. 2 :
          /\ inventory'[i] # Null
          /\ inventory'[i].id >= blockIdCounter
          /\ inventory'[i].shape \in BandShapes(s)
    /\ \A i \in 0 .. 2 : \A j \in 0 .. 2 :
          i # j => inventory'[i].id # inventory'[j].id

\* C5: a committed placement without a clear, and CLEAR_COMPLETE in clearing,
\* lead to the decision, which goes in this order: with all three slots empty
\* the inventory is refilled (three blocks generated at the current score)
\* and the decision taken again; otherwise the machine rests in idle iff some
\* block left in the inventory fits at some origin, and in gameOver if none
\* does, also when only one or two blocks are left.  The decision is entered
\* in no other way, and entering it changes neither grid nor inventory.
C5_Decision ==
    [][ /\ (state = "placing" /\ FullLines(grid) = 0) =>
              /\ state' = "checkingGameOver"
              /\ UNCHANGED <<grid, inventory, score>>
        /\ (state = "clearing" /\ lastEvent'.type = "CLEAR_COMPLETE") =>
              /\ state' = "checkingGameOver"
              /\ UNCHANGED <<grid, inventory, score, combo>>
        /\ (state # "checkingGameOver" /\ state' = "checkingGameOver") =>
              \/ state = "placing" /\ FullLines(grid) = 0
              \/ state = "clearing" /\ lastEvent'.type = "CLEAR_COMPLETE"
        /\ state = "checkingGameOver" =>
              IF SlotsLeft = 0
              THEN /\ state' = "checkingGameOver"
                   /\ RefilledAt(score)
                   /\ UNCHANGED <<grid, score, combo, highScore>>
              ELSE /\ state' = IF SomeBlockFits THEN "idle" ELSE "gameOver"
                   /\ UNCHANGED <<grid, inventory, score, combo>>
      ]_vars

\* CLEAR_COMPLETE ended a clear, and the decision that followed ended the
\* game: one or two blocks of a refilled inventory are left and none of them
\* fits anywhere.
C5_Witness ==
    /\ state = "gameOver"
    /\ lastEvent.type = "CLEAR_COMPLETE"
    /\ SlotsLeft \in 1 .. 2
    /\ ~SomeBlockFits
    /\ \E i \in 0 .. 2 :
          inventory[i] # Null /\ inventory[i].id >= LatePlaced + 3

====
